---- MODULE Spec2Model ----
(***************************************************************************)
(* Model of the graph containers and the disjoint batch generators of      *)
(* kgcnn:                                                                  *)
(*   kgcnn/io/loader.py   experimental_tf_disjoint_list_generator          *)
(*   kgcnn/data/base.py   NumpyContainer, MemoryGraphList                  *)
(* Two specifications share the variables: LoaderSpec runs one pass of     *)
(* the batch generator over a list of graphs, ListSpec runs the            *)
(* operations of a MemoryGraphList.                                        *)
(***************************************************************************)
EXTENDS Integers, Sequences, FiniteSets, TLC

VARIABLES
    \* ---- loader.py: arguments and locals of generator() ----
    graphs,           \* the list of graphs handed to the generator
    batch_size,
    shuffle,
    has_edges,
    has_graph_state,
    outputs,          \* the output descriptor(s): a dict or a list of dicts
    data_index,       \* np.arange(dataset_size), shuffled when shuffle
    batch_index,      \* the loop variable of range(0, dataset_size, batch_size)
    pc,               \* position of the generator: start, loop, done, raised
    yielded,          \* the batches yielded so far, each with its idx
    schema,           \* tf_disjoint_list_generator: inputs, assignments, flags
    \* ---- base.py: one MemoryGraphList, its records, one selection ----
    _list,            \* MemoryGraphList._list: the record objects, by identity
    heap,             \* record identity -> NumpyContainer._dict
    view,             \* the collection returned by the last __getitem__
    call,             \* the last call made: operation, arguments, outcome
    disk              \* the pickle file of the dataset, when it was written

loaderVars == <<graphs, batch_size, shuffle, has_edges, has_graph_state, outputs,
                data_index, batch_index, pc, yielded, schema>>
listVars == <<_list, heap, view, call, disk>>
vars == <<graphs, batch_size, shuffle, has_edges, has_graph_state, outputs,
          data_index, batch_index, pc, yielded, schema, _list, heap, view, call,
          disk>>

(***************************************************************************)
(* Bounds.                                                                 *)
(***************************************************************************)
MaxGraphs == 3
MaxBatchSize == 3
MaxLength == 2       \* records in a MemoryGraphList, entries in a value list

(***************************************************************************)
(* numpy helpers, computed as numpy computes them.  A 1-d array is a       *)
(* sequence, a 2-d array a sequence of rows.                               *)
(***************************************************************************)
\* np.arange(n): 0, 1, .., n-1
Arange(n) == [i \in 1..n |-> i - 1]

\* np.concatenate(array_list, axis=0)
RECURSIVE Concatenate(_)
Concatenate(array_list) ==
    IF array_list = <<>> THEN <<>>
    ELSE Head(array_list) \o Concatenate(Tail(array_list))

\* np.array([len(x) for x in array_list])
Counts(array_list) == [i \in 1..Len(array_list) |-> Len(array_list[i])]

\* np.repeat(a, repeats): a[i] repeated repeats[i] times, in order
RECURSIVE Repeat(_, _)
Repeat(a, repeats) ==
    IF a = <<>> THEN <<>>
    ELSE [k \in 1..Head(repeats) |-> Head(a)] \o Repeat(Tail(a), Tail(repeats))

\* np.cumsum(a)
RECURSIVE CumSum(_)
CumSum(a) ==
    IF a = <<>> THEN <<>>
    ELSE LET front == CumSum(SubSeq(a, 1, Len(a) - 1))
         IN  Append(front, (IF front = <<>> THEN 0 ELSE front[Len(front)]) + a[Len(a)])

\* np.pad(a, [[1, 0]]): one zero in front
Pad10(a) == <<0>> \o a

\* a[:-1]
ButLast(a) == SubSeq(a, 1, Len(a) - 1)

\* np.transpose of an (E, 2) array: 2 rows of E entries
Transpose(rows) == << [k \in 1..Len(rows) |-> rows[k][1]],
                      [k \in 1..Len(rows) |-> rows[k][2]] >>

\* python slice data_index[a:b] for 0 <= a <= b (0-based, end clipped)
Slice(s, a, b) == SubSeq(s, a + 1, IF b < Len(s) THEN b ELSE Len(s))

\* np.array(array_list): stacks one row per list entry; entries of unequal
\* shape cannot be stacked (ValueError: inhomogeneous shape)
Shape(x, nodelevel) == IF nodelevel THEN Len(x) ELSE 0
Stackable(array_list, nodelevel) ==
    \A i, j \in 1..Len(array_list) :
        Shape(array_list[i], nodelevel) = Shape(array_list[j], nodelevel)

(***************************************************************************)
(* The graphs the generator is run on.                                     *)
(***************************************************************************)
Graph(nodes, edges, state, label) ==
    [node_attributes |-> nodes,
     edge_indices    |-> edges,
     edge_attributes |-> [k \in 1..Len(edges) |-> 20 + k],
     graph_state     |-> state,
     graph_labels    |-> label,
     node_labels     |-> [k \in 1..Len(nodes) |-> 1]]

GraphPool ==
    { Graph(<<10, 11, 12>>, << <<0, 1>> >>, 7, 1),
      Graph(<<13, 14>>, << <<0, 1>> >>, 8, 2),
      Graph(<<15, 16>>, << <<1, 0>>, <<1, 1>> >>, 9, 3),
      Graph(<<17>>, <<>>, 6, 4) }

\* attributes with one row per node or per edge (the others are graph-level)
NodeLevel(name) ==
    name \in {"node_attributes", "node_labels", "edge_attributes", "edge_indices"}

\* the input descriptors, in the order the generator reads them
Inputs == <<"node_attributes">>
          \o (IF has_edges THEN <<"edge_attributes">> ELSE <<>>)
          \o (IF has_graph_state THEN <<"graph_state">> ELSE <<>>)
          \o <<"edge_indices">>

OutputChoices ==
    { [type |-> "dict", names |-> <<"graph_labels">>],
      [type |-> "dict", names |-> <<"node_labels">>],
      [type |-> "dict", names |-> <<"edge_attributes">>],
      [type |-> "list", names |-> <<"graph_labels", "graph_state">>] }

BoundedSeq(S, n) == UNION { [1..k -> S] : k \in 0..n }

\* mutant: sampling with replacement instead of a reordering
Shuffled_WithReplacement(n) == [1..n -> 0..(n - 1)]

\* np.random.shuffle(np.arange(n)): any reordering of 0..n-1
Shuffled(n) ==
    { p \in [1..n -> 0..(n - 1)] : \A i, j \in 1..n : p[i] = p[j] => i = j }

(***************************************************************************)
(* experimental_tf_disjoint_list_generator.generator, one batch.           *)
(***************************************************************************)
ArrayList(graphs_batch, name) ==
    [i \in 1..Len(graphs_batch) |-> graphs_batch[i][name]]

\* np.array(array_list, dtype=...)
NpStack(array_list) == array_list

BatchId(array_list) == Repeat(Arange(Len(array_list)), Counts(array_list))

\* mutant: the local id does not restart at each graph
LocalId_NoRestart(array_list) == Arange(Len(Concatenate(array_list)))

LocalId(array_list) ==
    Concatenate([i \in 1..Len(array_list) |-> Arange(Len(array_list[i]))])

\* mutant: the leading zero is missing, a graph's offset includes its own nodes
NodeSplits_NoPad(count_nodes) == Append(CumSum(count_nodes), 0)

NodeSplits(count_nodes) == Pad10(CumSum(count_nodes))

OffsetEdgeIndices(count_nodes, count_edges) ==
    Repeat(ButLast(NodeSplits(count_nodes)), count_edges)

\* edge_indices_flatten + offset_edge_indices (broadcast over both columns),
\* then np.transpose
DisjointIndices(edge_indices_flatten, offset_edge_indices) ==
    Transpose([k \in 1..Len(edge_indices_flatten) |->
                 << edge_indices_flatten[k][1] + offset_edge_indices[k],
                    edge_indices_flatten[k][2] + offset_edge_indices[k] >>])

BatchInputs(graphs_batch) ==
    LET nodes       == ArrayList(graphs_batch, Inputs[1])
        count_nodes == Counts(nodes)
        indices     == ArrayList(graphs_batch, Inputs[Len(Inputs)])
        count_edges == Counts(indices)
    IN    << Concatenate(nodes) >>
       \o (IF has_edges
           THEN << Concatenate(ArrayList(graphs_batch, Inputs[2])) >> ELSE <<>>)
       \o (IF has_graph_state
           THEN << NpStack(ArrayList(graphs_batch, Inputs[Len(Inputs) - 1])) >>
           ELSE <<>>)
       \o << DisjointIndices(Concatenate(indices),
                             OffsetEdgeIndices(count_nodes, count_edges)) >>
       \o << BatchId(nodes), BatchId(indices), LocalId(nodes), LocalId(indices),
             count_nodes, count_edges >>

\* mutant: a node-level or edge-level target is concatenated along the rows
BatchOutputs_Concatenated(graphs_batch) ==
    LET label(name) ==
            IF NodeLevel(name)
            THEN LET flat == Concatenate(ArrayList(graphs_batch, name))
                 IN  [r \in 1..Len(flat) |-> <<flat[r]>>]
            ELSE NpStack(ArrayList(graphs_batch, name))
    IN  IF outputs.type = "list"
        THEN [k \in 1..Len(outputs.names) |-> label(outputs.names[k])]
        ELSE label(outputs.names[1])

BatchOutputs(graphs_batch) ==
    IF outputs.type = "list"
    THEN [k \in 1..Len(outputs.names) |->
             NpStack(ArrayList(graphs_batch, outputs.names[k]))]
    ELSE NpStack(ArrayList(graphs_batch, outputs.names[1]))

\* np.array raises on per-graph arrays of unequal shape
OutputsRaise(graphs_batch) ==
    \E k \in 1..Len(outputs.names) :
        ~Stackable(ArrayList(graphs_batch, outputs.names[k]),
                   NodeLevel(outputs.names[k]))

(***************************************************************************)
(* The generator as a state machine.                                       *)
(***************************************************************************)
dataset_size == Len(graphs)

\* mutant: the remainder samples are dropped instead of forming a short batch
Idx_DropRemainder ==
    IF batch_index + batch_size > Len(data_index) THEN <<>>
    ELSE SubSeq(data_index, batch_index + 1, batch_index + batch_size)

\* data_index[batch_index:batch_index + batch_size]
Idx == Slice(data_index, batch_index, batch_index + batch_size)

GraphsBatch == [k \in 1..Len(Idx) |-> graphs[Idx[k] + 1]]

ListIdle ==
    /\ _list = <<>>
    /\ heap = <<>>
    /\ view = [made |-> FALSE, _list |-> <<>>]
    /\ call = [op |-> "none"]
    /\ disk = [written |-> FALSE]

LoaderInit ==
    /\ graphs \in BoundedSeq(GraphPool, MaxGraphs)
    /\ batch_size \in 1..MaxBatchSize
    /\ shuffle \in BOOLEAN
    /\ has_edges \in BOOLEAN
    /\ has_graph_state \in BOOLEAN
    /\ outputs \in OutputChoices
    /\ data_index = <<>>
    /\ batch_index = 0
    /\ pc = "start"
    /\ yielded = <<>>
    /\ schema = [given |-> FALSE]
    /\ ListIdle

\* lines 16-20: data_index, shuffled when asked
GeneratorStart ==
    /\ pc = "start"
    /\ data_index' \in (IF shuffle THEN Shuffled(dataset_size)
                                   ELSE {Arange(dataset_size)})
    /\ batch_index' = 0
    /\ pc' = "loop"
    /\ UNCHANGED <<graphs, batch_size, shuffle, has_edges, has_graph_state,
                   outputs, yielded, schema>>
    /\ UNCHANGED listVars

\* lines 22-74: one iteration of the batch loop
GeneratorBatch ==
    /\ pc = "loop"
    /\ batch_index < dataset_size
    /\ IF OutputsRaise(GraphsBatch)
       THEN /\ pc' = "raised"
            /\ UNCHANGED <<yielded, batch_index>>
       ELSE /\ yielded' = Append(yielded, [idx   |-> Idx,
                                           out   |-> BatchInputs(GraphsBatch),
                                           out_y |-> BatchOutputs(GraphsBatch)])
            /\ batch_index' = batch_index + batch_size
            /\ pc' = "loop"
    /\ UNCHANGED <<graphs, batch_size, shuffle, has_edges, has_graph_state,
                   outputs, data_index, schema>>
    /\ UNCHANGED listVars

\* the range is exhausted: the generator returns
GeneratorReturn ==
    /\ pc = "loop"
    /\ batch_index >= dataset_size
    /\ pc' = "done"
    /\ UNCHANGED <<graphs, batch_size, shuffle, has_edges, has_graph_state,
                   outputs, data_index, batch_index, yielded, schema>>
    /\ UNCHANGED listVars

LoaderNext == GeneratorStart \/ GeneratorBatch \/ GeneratorReturn

LoaderSpec == LoaderInit /\ [][LoaderNext]_vars

(***************************************************************************)
(* Python values.  Every value is a record tagged with its type in t; a     *)
(* sequence-like value holds its entries in items, an array its flat data.  *)
(***************************************************************************)
None == [t |-> "NoneType"]
PyInt(v) == [t |-> "int", data |-> <<v>>]
PyList(items) == [t |-> "list", items |-> items]
PyTuple(items) == [t |-> "tuple", items |-> items]
NdArray(ndim, data) == [t |-> "ndarray", ndim |-> ndim, data |-> data]

\* a 2-d array keeps its rows, each a sequence of integers
NdArray2(rows) == [t |-> "ndarray", ndim |-> 2, rows |-> rows]

\* np.array(None): a 0-d array of dtype object
ObjectArray == [t |-> "ndarray", ndim |-> 0, dtype |-> "object"]

\* np.array(value) of a python scalar, a flat or nested python list, None
\* or an array
NpArray(value) ==
    CASE value.t = "int" -> NdArray(0, value.data)
      [] value.t = "list" ->
            IF value.items # <<>> /\ \A i \in 1..Len(value.items) : value.items[i].t = "list"
            THEN NdArray2([i \in 1..Len(value.items) |->
                     [j \in 1..Len(value.items[i].items) |->
                         value.items[i].items[j].data[1]]])
            ELSE NdArray(1, [i \in 1..Len(value.items) |-> value.items[i].data[1]])
      [] value.t = "ndarray" -> value
      [] value.t = "NoneType" -> ObjectArray

\* what a caller hands over as one record's value
Elements == { None, PyInt(5), PyList(<<PyInt(1)>>) }

Keys == {"node_attributes", "edge_indices"}

\* the values assign_property is called with
AssignValues ==
    {None} \cup { PyList(items) : items \in BoundedSeq(Elements, MaxLength) }
           \cup { PyTuple(items) : items \in BoundedSeq({PyInt(5)}, MaxLength) }

(***************************************************************************)
(* NumpyContainer: _dict is a function from the keys set to arrays.        *)
(***************************************************************************)
EmptyDict == [k \in {} |-> None]

\* _dict.update({key: array})
DictUpdate(_dict, key, array) ==
    [k \in DOMAIN _dict \cup {key} |-> IF k = key THEN array ELSE _dict[k]]

\* mutant: None is cast and stored like any other value
NumpyContainer_assign_property_StoresNone(_dict, key, value) ==
    DictUpdate(_dict, key, NpArray(value))

NumpyContainer_assign_property(_dict, key, value) ==
    IF value.t # "NoneType" THEN DictUpdate(_dict, key, NpArray(value))
    ELSE _dict

\* mutant: a stored value that is falsy (not set, or 0-d) is not returned
NumpyContainer_obtain_property_Truthy(_dict, key) ==
    IF key \in DOMAIN _dict /\ _dict[key].ndim > 0 THEN _dict[key] ELSE None

NumpyContainer_obtain_property(_dict, key) ==
    IF key \in DOMAIN _dict THEN _dict[key] ELSE None

\* mutant: the mapping is taken as it is
NumpyContainer_init_Raw(graph) == graph

\* NumpyContainer(graph): every value of the mapping is cast to an array
NumpyContainer_init(graph) == [key \in DOMAIN graph |-> NpArray(graph[key])]

\* self._dict[item] = np.array(value)
NumpyContainer_setitem(_dict, item, value) == DictUpdate(_dict, item, NpArray(value))

(***************************************************************************)
(* MemoryGraphList.  Records are objects: a collection holds their          *)
(* identities and heap maps an identity to the record's _dict.  A method is *)
(* an operator from the collection's _list and the heap to the outcome:     *)
(* what it raised, the _list and heap it leaves, and what it returned.      *)
(***************************************************************************)
MaxRecords == 2 * MaxLength
RecordIds == 1..MaxRecords

Range(f) == { f[i] : i \in DOMAIN f }

\* the records some collection refers to
Live(l, v) == Range(l) \cup Range(v._list)

\* GraphNumpyContainer() for _ in range(length): objects not in use so far
RECURSIVE NewRecords(_, _)
NewRecords(length, used) ==
    IF length = 0 THEN <<>>
    ELSE LET r == CHOOSE x \in RecordIds \ used :
                      \A y \in RecordIds \ used : x <= y
         IN  <<r>> \o NewRecords(length - 1, used \cup {r})

MemoryGraphList_empty(self_list, h, used, length) ==
    LET new == NewRecords(length, used)
    IN  [raised |-> "none",
         _list  |-> new,
         heap   |-> [r \in RecordIds |-> IF r \in Range(new) THEN EmptyDict ELSE h[r]]]

\* for i, x in enumerate(value): self._list[i].assign_property(key, x)
RECURSIVE AssignEach(_, _, _, _, _)
AssignEach(self_list, h, key, items, i) ==
    IF i > Len(items) THEN h
    ELSE AssignEach(self_list,
                    [h EXCEPT ![self_list[i]] =
                        NumpyContainer_assign_property(@, key, items[i])],
                    key, items, i + 1)

\* mutant: the length is checked only after the entries that fit were assigned
MemoryGraphList_assign_property_LateCheck(self_list, h, used, key, value) ==
    IF value.t = "NoneType"
    THEN [raised |-> "none", _list |-> self_list, heap |-> h]
    ELSE IF value.t # "list"
    THEN [raised |-> "TypeError", _list |-> self_list, heap |-> h]
    ELSE LET s == IF Len(self_list) = 0
                  THEN MemoryGraphList_empty(self_list, h, used, Len(value.items))
                  ELSE [raised |-> "none", _list |-> self_list, heap |-> h]
             fit == IF Len(value.items) < Len(s._list)
                    THEN value.items ELSE SubSeq(value.items, 1, Len(s._list))
         IN  [raised |-> IF Len(s._list) # Len(value.items)
                         THEN "ValueError" ELSE "none",
              _list  |-> s._list,
              heap   |-> AssignEach(s._list, s.heap, key, fit, 1)]

\* mutant: a value that is not a list is taken as a sequence all the same
MemoryGraphList_assign_property_AnySequence(self_list, h, used, key, value) ==
    IF value.t = "NoneType"
    THEN [raised |-> "none", _list |-> self_list, heap |-> h]
    ELSE LET s == IF Len(self_list) = 0
                  THEN MemoryGraphList_empty(self_list, h, used, Len(value.items))
                  ELSE [raised |-> "none", _list |-> self_list, heap |-> h]
         IN  IF Len(s._list) # Len(value.items)
             THEN [raised |-> "ValueError", _list |-> s._list, heap |-> s.heap]
             ELSE [raised |-> "none",
                   _list  |-> s._list,
                   heap   |-> AssignEach(s._list, s.heap, key, value.items, 1)]

MemoryGraphList_assign_property(self_list, h, used, key, value) ==
    IF value.t = "NoneType"
    THEN [raised |-> "none", _list |-> self_list, heap |-> h]
    ELSE IF value.t # "list"
    THEN [raised |-> "TypeError", _list |-> self_list, heap |-> h]
    ELSE LET s == IF Len(self_list) = 0
                  THEN MemoryGraphList_empty(self_list, h, used, Len(value.items))
                  ELSE [raised |-> "none", _list |-> self_list, heap |-> h]
         IN  IF Len(s._list) # Len(value.items)
             THEN [raised |-> "ValueError", _list |-> s._list, heap |-> s.heap]
             ELSE [raised |-> "none",
                   _list  |-> s._list,
                   heap   |-> AssignEach(s._list, s.heap, key, value.items, 1)]

\* mutant: any() in place of all()
MemoryGraphList_obtain_property_Any(self_list, h, key) ==
    LET prop_list == [i \in 1..Len(self_list) |->
                         NumpyContainer_obtain_property(h[self_list[i]], key)]
    IN  IF \E i \in 1..Len(prop_list) : prop_list[i].t = "NoneType"
        THEN [ret |-> None, warning |-> TRUE]
        ELSE [ret |-> PyList(prop_list), warning |-> FALSE]

\* returns the list of the records' values, or None when all are None
MemoryGraphList_obtain_property(self_list, h, key) ==
    LET prop_list == [i \in 1..Len(self_list) |->
                         NumpyContainer_obtain_property(h[self_list[i]], key)]
    IN  IF \A i \in 1..Len(prop_list) : prop_list[i].t = "NoneType"
        THEN [ret |-> None, warning |-> TRUE]
        ELSE [ret |-> PyList(prop_list), warning |-> FALSE]

\* python indexing l[i] of a list by an int: negative i counts from the end
PyIndexOk(l, i) == -Len(l) <= i /\ i < Len(l)
PyIndex(l, i) == IF i < 0 THEN l[Len(l) + i + 1] ELSE l[i + 1]

\* [self._list[int(i)] for i in item]
SelectEach(self_list, idx) == [k \in 1..Len(idx) |-> PyIndex(self_list, idx[k])]

\* the keys __getitem__ is called with
Items ==
         { [t |-> "int", v |-> i] : i \in -1..MaxLength }
    \cup { [t |-> "np.int64", v |-> 0] }
    \cup { [t |-> "slice", start |-> a, stop |-> b] :
              a \in 0..MaxLength, b \in 0..MaxLength }
    \cup { [t |-> "list", idx |-> idx] : idx \in BoundedSeq(-1..(MaxLength - 1), 2) }
    \cup { [t |-> "ndarray", idx |-> idx] : idx \in BoundedSeq(0..(MaxLength - 1), 2) }
    \cup { [t |-> "tuple", idx |-> <<0>>], [t |-> "str"] }

\* python slicing l[start:stop] with 0 <= start, stop
PySlice(l, start, stop) == IF start < stop THEN Slice(l, start, stop) ELSE <<>>

\* mutant: the selection holds copies of the selected records
MemoryGraphList_getitem_Copies(self_list, h, used, item) ==
    IF item.t = "slice"
    THEN LET sel == PySlice(self_list, item.start, item.stop)
             new == NewRecords(Len(sel), used)
         IN  [raised |-> "none", new_list |-> new,
              heap |-> [r \in RecordIds |->
                  IF \E k \in 1..Len(new) : new[k] = r
                  THEN h[sel[CHOOSE k \in 1..Len(new) : new[k] = r]] ELSE h[r]]]
    ELSE IF item.t = "int" /\ PyIndexOk(self_list, item.v)
    THEN [raised |-> "none", record |-> PyIndex(self_list, item.v), heap |-> h]
    ELSE IF item.t \in {"list", "ndarray"}
            /\ \A k \in 1..Len(item.idx) : PyIndexOk(self_list, item.idx[k])
    THEN [raised |-> "none", new_list |-> SelectEach(self_list, item.idx), heap |-> h]
    ELSE [raised |-> IF item.t \in {"int", "list", "ndarray"}
                     THEN "IndexError" ELSE "TypeError", heap |-> h]

\* returns a record for an int, a new collection of the selected records
\* for a slice, a list or an array; no record is created
MemoryGraphList_getitem(self_list, h, used, item) ==
    IF item.t = "int"
    THEN IF PyIndexOk(self_list, item.v)
         THEN [raised |-> "none", record |-> PyIndex(self_list, item.v), heap |-> h]
         ELSE [raised |-> "IndexError", heap |-> h]
    ELSE IF item.t = "slice"
    THEN [raised |-> "none", heap |-> h,
          new_list |-> PySlice(self_list, item.start, item.stop)]
    ELSE IF item.t \in {"list", "ndarray"}
    THEN IF \A k \in 1..Len(item.idx) : PyIndexOk(self_list, item.idx[k])
         THEN [raised |-> "none", heap |-> h,
               new_list |-> SelectEach(self_list, item.idx)]
         ELSE [raised |-> "IndexError", heap |-> h]
    ELSE [raised |-> "TypeError", heap |-> h]

(***************************************************************************)
(* MemoryGraphList.clean(inputs).  An entry of inputs is a name or a        *)
(* descriptor with a name.                                                  *)
(***************************************************************************)
PyStr(s) == [t |-> "str", s |-> s]
PyDict(name) == [t |-> "dict", name |-> name]

\* item["name"] if isinstance(item, dict) else item
ItemName(item) == IF item.t = "dict" THEN item.name ELSE item.s

\* hasattr(x, "__getitem__")
HasGetItem(x) == x.t \in {"ndarray", "list", "tuple", "str", "dict"}

\* len(x) of an array: its leading length; a 0-d array has none (TypeError)
PyLenOk(x) == x.t # "ndarray" \/ x.ndim > 0
PyLen(x) == IF x.t # "ndarray" THEN Len(x.items)
            ELSE IF x.ndim = 2 THEN Len(x.rows) ELSE Len(x.data)

\* mutant: a value of zero length is not marked
RECURSIVE ScanProps_NullOnly(_, _, _)
ScanProps_NullOnly(props, i, invalid_graphs) ==
    IF i > Len(props) THEN [raised |-> "none", invalid_graphs |-> invalid_graphs]
    ELSE LET x == props[i]
         IN  IF x.t = "NoneType" \/ ~HasGetItem(x)
             THEN ScanProps_NullOnly(props, i + 1, Append(invalid_graphs, i - 1))
             ELSE IF ~PyLenOk(x)
             THEN [raised |-> "TypeError", invalid_graphs |-> invalid_graphs]
             ELSE ScanProps_NullOnly(props, i + 1, invalid_graphs)

\* for i, x in enumerate(props): the 0-based indices of the values that are
\* None, have no __getitem__ or have zero length are appended
RECURSIVE ScanProps(_, _, _)
ScanProps(props, i, invalid_graphs) ==
    IF i > Len(props) THEN [raised |-> "none", invalid_graphs |-> invalid_graphs]
    ELSE LET x == props[i]
         IN  IF x.t = "NoneType" \/ ~HasGetItem(x)
             THEN ScanProps(props, i + 1, Append(invalid_graphs, i - 1))
             ELSE IF ~PyLenOk(x)
             THEN [raised |-> "TypeError", invalid_graphs |-> invalid_graphs]
             ELSE IF PyLen(x) <= 0
             THEN ScanProps(props, i + 1, Append(invalid_graphs, i - 1))
             ELSE ScanProps(props, i + 1, invalid_graphs)

\* for item in inputs: a property no record holds is skipped with a warning
RECURSIVE ScanInputs(_, _, _, _, _)
ScanInputs(self_list, h, inputs, n, invalid_graphs) ==
    IF n > Len(inputs) THEN [raised |-> "none", invalid_graphs |-> invalid_graphs]
    ELSE LET props == MemoryGraphList_obtain_property(
                          self_list, h, ItemName(inputs[n])).ret
         IN  IF props.t = "NoneType"
             THEN ScanInputs(self_list, h, inputs, n + 1, invalid_graphs)
             ELSE LET s == ScanProps(props.items, 1, invalid_graphs)
                  IN  IF s.raised # "none" THEN s
                      ELSE ScanInputs(self_list, h, inputs, n + 1, s.invalid_graphs)

\* np.unique(a): the distinct entries in ascending order
RECURSIVE SortedSeq(_)
SortedSeq(S) ==
    IF S = {} THEN <<>>
    ELSE LET m == CHOOSE x \in S : \A y \in S : x <= y
         IN  <<m>> \o SortedSeq(S \ {m})
NpUnique(a) == SortedSeq(Range(a))

\* np.flip(a)
NpFlip(a) == [k \in 1..Len(a) |-> a[Len(a) + 1 - k]]

\* for i in invalid_graphs: self._list.pop(int(i))
RECURSIVE PopEach(_, _)
PopEach(self_list, invalid_graphs) ==
    IF invalid_graphs = <<>> THEN [raised |-> "none", _list |-> self_list]
    ELSE LET i == Head(invalid_graphs)
         IN  IF ~PyIndexOk(self_list, i)
             THEN [raised |-> "IndexError", _list |-> self_list]
             ELSE PopEach(SubSeq(self_list, 1, i)
                              \o SubSeq(self_list, i + 2, Len(self_list)),
                          Tail(invalid_graphs))

\* mutant: the records are popped in ascending order of their index
MemoryGraphList_clean_Ascending(self_list, h, inputs) ==
    LET s == ScanInputs(self_list, h, inputs, 1, <<>>)
    IN  IF s.raised # "none"
        THEN [raised |-> s.raised, _list |-> self_list, heap |-> h]
        ELSE LET p == PopEach(self_list, NpUnique(s.invalid_graphs))
             IN  [raised |-> p.raised, _list |-> p._list, heap |-> h]

MemoryGraphList_clean(self_list, h, inputs) ==
    LET s == ScanInputs(self_list, h, inputs, 1, <<>>)
    IN  IF s.raised # "none"
        THEN [raised |-> s.raised, _list |-> self_list, heap |-> h]
        ELSE LET p == PopEach(self_list, NpFlip(NpUnique(s.invalid_graphs)))
             IN  [raised |-> p.raised, _list |-> p._list, heap |-> h]

(***************************************************************************)
(* Arrays with rows.  A 2-d array keeps its rows, each a sequence of        *)
(* integers; an index array has rows (i, j).  The sentinel nan is written   *)
(* as the integer NaN, which is no row number and no node id.               *)
(***************************************************************************)
NaN == -1

\* a[p] for a sequence p of 1-based row numbers
Take(rows, p) == [k \in 1..Len(p) |-> rows[p[k]]]

\* (j, i) for the row (i, j)
Flip(row) == <<row[2], row[1]>>

\* the 1-based number of the first row equal to row, 0 when there is none
FirstRow(rows, row) ==
    IF \E k \in 1..Len(rows) : rows[k] = row
    THEN CHOOSE k \in 1..Len(rows) :
             rows[k] = row /\ \A j \in 1..(k - 1) : rows[j] # row
    ELSE 0

(***************************************************************************)
(* The functions of kgcnn.utils.adj that the record's operations call.      *)
(* Each takes the index rows first and the rows of the co-prefixed          *)
(* attributes after them, and returns them in the same order.               *)
(***************************************************************************)
\* the row numbers in ascending order of the first column, ties broken by
\* the second column, then by the row number
RECURSIVE SortOrder(_, _)
SortOrder(indices, left) ==
    IF left = {} THEN <<>>
    ELSE LET Before(a, b) ==
                 \/ indices[a][1] < indices[b][1]
                 \/ indices[a][1] = indices[b][1] /\ indices[a][2] < indices[b][2]
                 \/ indices[a] = indices[b] /\ a <= b
             m == CHOOSE a \in left : \A b \in left : Before(a, b)
         IN  <<m>> \o SortOrder(indices, left \ {m})

\* the row numbers of the first occurrence of each index pair, in order
Unique(indices) ==
    LET keep == { k \in 1..Len(indices) : FirstRow(indices, indices[k]) = k }
    IN  SortedSeq(keep)

\* the dedup and sort passes the extending functions end with
DedupSort(arrays, remove_duplicates, sort_indices) ==
    LET u == IF remove_duplicates THEN Unique(arrays[1])
             ELSE [k \in 1..Len(arrays[1]) |-> k]
        unique == [a \in 1..Len(arrays) |-> Take(arrays[a], u)]
        o == IF sort_indices THEN SortOrder(unique[1], 1..Len(unique[1]))
             ELSE [k \in 1..Len(unique[1]) |-> k]
    IN  [a \in 1..Len(arrays) |-> Take(unique[a], o)]

\* sort_edge_indices(indices, *args)
adj_sort_edge_indices(arrays) ==
    LET o == SortOrder(arrays[1], 1..Len(arrays[1]))
    IN  [a \in 1..Len(arrays) |-> Take(arrays[a], o)]

\* add_edges_reverse_indices(indices, *args, remove_duplicates, sort_indices):
\* (j, i) is appended for every row (i, j) that has no row (j, i), with the
\* attribute rows of (i, j)
adj_add_edges_reverse_indices(arrays, remove_duplicates, sort_indices) ==
    LET indices == arrays[1]
        lacking == SortedSeq({ k \in 1..Len(indices) :
                                  FirstRow(indices, Flip(indices[k])) = 0 })
        added == [a \in 1..Len(arrays) |->
                     arrays[a] \o [k \in 1..Len(lacking) |->
                                      IF a = 1 THEN Flip(indices[lacking[k]])
                                      ELSE arrays[a][lacking[k]]]]
    IN  DedupSort(added, remove_duplicates, sort_indices)

\* the node ids that appear in the index array, in ascending order
NodeIds(indices) == SortedSeq({ indices[k][c] : k \in 1..Len(indices), c \in 1..2 })

\* a row of fill_value as wide as the rows of the attribute
FillRow(rows, fill_value) ==
    [c \in 1..(IF rows = <<>> THEN 1 ELSE Len(rows[1])) |-> fill_value]

\* add_self_loops_to_edge_indices(indices, *args, remove_duplicates,
\* sort_indices, fill_value): (v, v) is appended for every node id v that
\* appears and has no row (v, v), with attribute rows of fill_value
adj_add_self_loops_to_edge_indices(arrays, remove_duplicates, sort_indices, fill_value) ==
    LET indices == arrays[1]
        all == NodeIds(indices)
        absent == SortedSeq({ all[n] : n \in { m \in 1..Len(all) :
                                  FirstRow(indices, <<all[m], all[m]>>) = 0 } })
        added == [a \in 1..Len(arrays) |->
                     arrays[a] \o [k \in 1..Len(absent) |->
                                      IF a = 1 THEN <<absent[k], absent[k]>>
                                      ELSE FillRow(arrays[a], fill_value)]]
    IN  DedupSort(added, remove_duplicates, sort_indices)

\* compute_reverse_edges_index_map(indices): for the row (i, j) the 0-based
\* number of the first row (j, i), nan when there is none
adj_compute_reverse_edges_index_map(indices) ==
    [k \in 1..Len(indices) |->
        IF FirstRow(indices, Flip(indices[k])) = 0 THEN NaN
        ELSE FirstRow(indices, Flip(indices[k])) - 1]

\* the convention of these functions: the index array alone when no
\* attribute was passed, else the list of all arrays
ReturnArrays(arrays) ==
    IF Len(arrays) = 1 THEN NdArray2(arrays[1])
    ELSE PyList([a \in 1..Len(arrays) |-> NdArray2(arrays[a])])

\* rescale_edge_weights_degree_sym(indices, weights) for weights of one: the
\* weight of (i, j) becomes (D[i] * D[j]) ^ -0.5, D[v] being the number of
\* rows whose first column is v.  A weight w is kept as the integer c with
\* w = c ^ -0.5 (1 is the weight one, 0 the result of a zero degree).
Degree(indices, v) == Cardinality({ k \in 1..Len(indices) : indices[k][1] = v })
adj_rescale_edge_weights_degree_sym(indices, weights) ==
    [k \in 1..Len(indices) |->
        << Degree(indices, indices[k][1]) * Degree(indices, indices[k][2]) >>]

\* get_angle_indices(indices, allow_multi_edges): the pairs of rows (a, b),
\* (b, c) that share the middle node, as row numbers and as node triples
AngleRows(indices, allow_multi_edges) ==
    LET E == Len(indices)
        ok(r1, r2) == /\ r1 # r2
                      /\ indices[r1][2] = indices[r2][1]
                      /\ allow_multi_edges \/ indices[r1][1] # indices[r2][2]
        pairs == SortedSeq({ c \in 0..(E * E - 1) : ok((c \div E) + 1, (c % E) + 1) })
    IN  [k \in 1..Len(pairs) |-> << pairs[k] \div E, pairs[k] % E >>]
adj_get_angle_indices(indices, allow_multi_edges) ==
    LET a_indices == AngleRows(indices, allow_multi_edges)
    IN  [a_indices |-> a_indices,
         a_triples |-> [k \in 1..Len(a_indices) |->
                          << indices[a_indices[k][1] + 1][1],
                             indices[a_indices[k][1] + 1][2],
                             indices[a_indices[k][2] + 1][2] >>]]

\* get_angle(coordinates, triples) for nodes on a line: the angle at b
\* between b->a and b->c, in degrees; nan when a or c lies on b
adj_get_angle(xyz, a_triples) ==
    [k \in 1..Len(a_triples) |->
        LET u == xyz[a_triples[k][1] + 1][1] - xyz[a_triples[k][2] + 1][1]
            v == xyz[a_triples[k][3] + 1][1] - xyz[a_triples[k][2] + 1][1]
        IN  << IF u * v > 0 THEN 0 ELSE IF u * v < 0 THEN 180 ELSE NaN >>]

(***************************************************************************)
(* GraphNumpyContainer: the operations on the index family of a prefix.     *)
(* An operation is an operator from the record's _dict to what it raised    *)
(* and the _dict it leaves.                                                 *)
(***************************************************************************)
Prefixes == {"edge_", "range_"}

\* prefix + "indices", prefix + "indices_reverse", prefix + "weights"
PrefixKey(prefix, suffix) ==
    CASE prefix = "edge_" /\ suffix = "indices" -> "edge_indices"
      [] prefix = "edge_" /\ suffix = "indices_reverse" -> "edge_indices_reverse"
      [] prefix = "edge_" /\ suffix = "weights" -> "edge_weights"
      [] prefix = "range_" /\ suffix = "indices" -> "range_indices"
      [] prefix = "range_" /\ suffix = "indices_reverse" -> "range_indices_reverse"
      [] prefix = "range_" /\ suffix = "weights" -> "range_weights"

\* the attribute names of a record, in the order its _dict lists them
KeyOrder ==
    << "node_coordinates", "graph_labels",
       "edge_indices", "edge_attributes", "edge_indices_reverse", "edge_weights",
       "range_indices", "range_attributes", "range_indices_reverse", "range_weights",
       "angle_indices", "angle_indices_nodes", "angle_attributes" >>

\* prop_prefix == x[:len(prop_prefix)]
HasPrefix(x, prop_prefix) ==
    CASE prop_prefix = "edge_" ->
             x \in {"edge_indices", "edge_attributes", "edge_indices_reverse",
                    "edge_weights"}
      [] prop_prefix = "range_" ->
             x \in {"range_indices", "range_attributes", "range_indices_reverse",
                    "range_weights"}

RECURSIVE SelectSeq2(_, _, _)
SelectSeq2(keys, _dict, prop_prefix) ==
    IF keys = <<>> THEN <<>>
    ELSE (IF Head(keys) \in DOMAIN _dict /\ HasPrefix(Head(keys), prop_prefix)
          THEN <<Head(keys)>> ELSE <<>>)
         \o SelectSeq2(Tail(keys), _dict, prop_prefix)

GraphNumpyContainer_find_graph_properties(_dict, prop_prefix) ==
    SelectSeq2(KeyOrder, _dict, prop_prefix)

\* prefix + "indices" not in self._dict or self._dict[prefix + "indices"] is None
IndicesMissing(_dict, prefix) ==
    \/ PrefixKey(prefix, "indices") \notin DOMAIN _dict
    \/ _dict[PrefixKey(prefix, "indices")].t = "NoneType"

\* an attribute has fewer rows than the index array: taking its rows in the
\* order of the index rows raises IndexError inside the operation
RowsLacking(arrays) == \E a \in 1..Len(arrays) : Len(arrays[a]) < Len(arrays[1])

\* operation(*non_nan_edge, **kwargs)
Operate(operation, arrays, kwargs) ==
    CASE operation = "sort_edge_indices" ->
             ReturnArrays(adj_sort_edge_indices(arrays))
      [] operation = "add_edges_reverse_indices" ->
             ReturnArrays(adj_add_edges_reverse_indices(
                 arrays, kwargs.remove_duplicates, kwargs.sort_indices))
      [] operation = "add_self_loops_to_edge_indices" ->
             ReturnArrays(adj_add_self_loops_to_edge_indices(
                 arrays, kwargs.remove_duplicates, kwargs.sort_indices,
                 kwargs.fill_value))

\* for i, at in enumerate(no_nan_edge_prop): self._dict[at] = new_edges[i]
RECURSIVE SetEach(_, _, _, _)
SetEach(_dict, names, new_edges, i) ==
    IF i > Len(names) THEN _dict
    ELSE SetEach(DictUpdate(_dict, names[i], new_edges[i]), names, new_edges, i + 1)

\* mutant: only the index array is replaced, the attributes stay as they were
GraphNumpyContainer_operate_on_edges_OnlyIndices(_dict, operation, prefix_attributes, kwargs) ==
    IF IndicesMissing(_dict, prefix_attributes)
    THEN [raised |-> "ValueError", about |-> prefix_attributes, _dict |-> _dict]
    ELSE LET indices == PrefixKey(prefix_attributes, "indices")
             NotIndices(x) == x # indices
             edge_linked == <<indices>> \o SelectSeq(
                 GraphNumpyContainer_find_graph_properties(_dict, prefix_attributes),
                 NotIndices)
             new_edges == Operate(operation,
                                  [i \in 1..Len(edge_linked) |-> _dict[edge_linked[i]].rows],
                                  kwargs)
         IN  [raised |-> "none", about |-> prefix_attributes,
              _dict |-> DictUpdate(_dict, indices,
                                   IF Len(edge_linked) = 1 THEN new_edges
                                   ELSE new_edges.items[1])]

\* _operate_on_edges(operation, prefix_attributes, **kwargs)
GraphNumpyContainer_operate_on_edges(_dict, operation, prefix_attributes, kwargs) ==
    IF IndicesMissing(_dict, prefix_attributes)
    THEN [raised |-> "ValueError", about |-> prefix_attributes, _dict |-> _dict]
    ELSE LET indices == PrefixKey(prefix_attributes, "indices")
             NotIndices(x) == x # indices
             NotNone(x) == _dict[x].t # "NoneType"
             edge_linked == <<indices>> \o SelectSeq(
                 GraphNumpyContainer_find_graph_properties(_dict, prefix_attributes),
                 NotIndices)
             no_nan_edge_prop == SelectSeq(edge_linked, NotNone)
             non_nan_edge == [i \in 1..Len(no_nan_edge_prop) |->
                                 _dict[no_nan_edge_prop[i]].rows]
             returned == Operate(operation, non_nan_edge, kwargs)
             new_edges == IF Len(no_nan_edge_prop) = 1 THEN <<returned>>
                          ELSE returned.items
         IN  IF RowsLacking(non_nan_edge)
             THEN [raised |-> "IndexError", about |-> "", _dict |-> _dict]
             ELSE [raised |-> "none", about |-> prefix_attributes,
                   _dict |-> SetEach(_dict, no_nan_edge_prop, new_edges, 1)]

\* np.expand_dims(a, axis=-1): one column
ExpandDims(a) == [k \in 1..Len(a) |-> <<a[k]>>]

\* mutant: the map is stored as the index array itself
GraphNumpyContainer_set_edge_indices_reverse_Overwrites(_dict, prefix_attributes) ==
    IF IndicesMissing(_dict, prefix_attributes)
    THEN [raised |-> "ValueError", about |-> prefix_attributes, _dict |-> _dict]
    ELSE [raised |-> "none", about |-> prefix_attributes,
          _dict |-> DictUpdate(_dict, PrefixKey(prefix_attributes, "indices"),
                        NdArray2(ExpandDims(adj_compute_reverse_edges_index_map(
                            _dict[PrefixKey(prefix_attributes, "indices")].rows))))]

GraphNumpyContainer_set_edge_indices_reverse(_dict, prefix_attributes) ==
    IF IndicesMissing(_dict, prefix_attributes)
    THEN [raised |-> "ValueError", about |-> prefix_attributes, _dict |-> _dict]
    ELSE [raised |-> "none", about |-> prefix_attributes,
          _dict |-> DictUpdate(_dict, PrefixKey(prefix_attributes, "indices_reverse"),
                        NdArray2(ExpandDims(adj_compute_reverse_edges_index_map(
                            _dict[PrefixKey(prefix_attributes, "indices")].rows))))]

GraphNumpyContainer_make_undirected_edges(_dict, prefix_attributes, remove_duplicates, sort_indices) ==
    GraphNumpyContainer_operate_on_edges(
        _dict, "add_edges_reverse_indices", prefix_attributes,
        [remove_duplicates |-> remove_duplicates, sort_indices |-> sort_indices])

\* mutant: fill_value is not handed on, the rows are filled with 0
GraphNumpyContainer_add_edge_self_loops_NoFill(_dict, prefix_attributes, remove_duplicates, sort_indices, fill_value) ==
    GraphNumpyContainer_operate_on_edges(
        _dict, "add_self_loops_to_edge_indices", prefix_attributes,
        [remove_duplicates |-> remove_duplicates, sort_indices |-> sort_indices,
         fill_value |-> 0])

GraphNumpyContainer_add_edge_self_loops(_dict, prefix_attributes, remove_duplicates, sort_indices, fill_value) ==
    GraphNumpyContainer_operate_on_edges(
        _dict, "add_self_loops_to_edge_indices", prefix_attributes,
        [remove_duplicates |-> remove_duplicates, sort_indices |-> sort_indices,
         fill_value |-> fill_value])

\* mutant: the function handed to the wrapper is the one that adds the
\* reverse edges
GraphNumpyContainer_sort_edge_indices_WrongOperation(_dict, prefix_attributes) ==
    GraphNumpyContainer_operate_on_edges(
        _dict, "add_edges_reverse_indices", prefix_attributes,
        [remove_duplicates |-> TRUE, sort_indices |-> TRUE])

GraphNumpyContainer_sort_edge_indices(_dict, prefix_attributes) ==
    GraphNumpyContainer_operate_on_edges(
        _dict, "sort_edge_indices", prefix_attributes, [none |-> TRUE])

\* np.ones((n, 1))
Ones(n) == [k \in 1..n |-> <<1>>]

\* mutant: the weights are initialised before the indices are looked for
GraphNumpyContainer_normalize_edge_weights_sym_WeightsFirst(_dict, prefix_attributes) ==
    IF IndicesMissing(_dict, prefix_attributes)
    THEN [raised |-> "ValueError", about |-> prefix_attributes,
          _dict |-> DictUpdate(_dict, PrefixKey(prefix_attributes, "weights"),
                               NdArray2(Ones(0)))]
    ELSE LET indices == PrefixKey(prefix_attributes, "indices")
             weights == PrefixKey(prefix_attributes, "weights")
             d1 == IF weights \notin DOMAIN _dict
                   THEN DictUpdate(_dict, weights, NdArray2(Ones(PyLen(_dict[indices]))))
                   ELSE _dict
         IN  [raised |-> "none", about |-> prefix_attributes,
              _dict |-> DictUpdate(d1, weights,
                            NdArray2(adj_rescale_edge_weights_degree_sym(
                                d1[indices].rows, d1[weights].rows)))]

\* mutant: absent weights are not initialised and nothing is rescaled
GraphNumpyContainer_normalize_edge_weights_sym_NoInit(_dict, prefix_attributes) ==
    IF IndicesMissing(_dict, prefix_attributes)
    THEN [raised |-> "ValueError", about |-> prefix_attributes, _dict |-> _dict]
    ELSE LET indices == PrefixKey(prefix_attributes, "indices")
             weights == PrefixKey(prefix_attributes, "weights")
         IN  [raised |-> "none", about |-> prefix_attributes,
              _dict |-> IF weights \notin DOMAIN _dict THEN _dict
                        ELSE DictUpdate(_dict, weights,
                                 NdArray2(adj_rescale_edge_weights_degree_sym(
                                     _dict[indices].rows, _dict[weights].rows)))]

GraphNumpyContainer_normalize_edge_weights_sym(_dict, prefix_attributes) ==
    IF IndicesMissing(_dict, prefix_attributes)
    THEN [raised |-> "ValueError", about |-> prefix_attributes, _dict |-> _dict]
    ELSE LET indices == PrefixKey(prefix_attributes, "indices")
             weights == PrefixKey(prefix_attributes, "weights")
             d1 == IF weights \notin DOMAIN _dict
                      \/ NumpyContainer_obtain_property(_dict, weights).t = "NoneType"
                   THEN DictUpdate(_dict, weights,
                                   NdArray2(Ones(PyLen(NumpyContainer_obtain_property(
                                       _dict, indices)))))
                   ELSE _dict
         IN  [raised |-> "none", about |-> prefix_attributes,
              _dict |-> DictUpdate(d1, weights,
                            NdArray2(adj_rescale_edge_weights_degree_sym(
                                d1[indices].rows, d1[weights].rows)))]

\* xyz[idx[:, 0]] - xyz[idx[:, 1]] needs every node id to have coordinates
CoordinatesCover(xyz, idx) ==
    \A k \in 1..Len(idx) : \A c \in 1..2 : PyIndexOk(xyz, idx[k][c])

\* sqrt(sum(square(xyz[i] - xyz[j]))) for nodes on a line
Distance(xyz, idx) ==
    [k \in 1..Len(idx) |->
        LET d == PyIndex(xyz, idx[k][1])[1] - PyIndex(xyz, idx[k][2])[1]
        IN  << IF d < 0 THEN -d ELSE d >>]

\* set_range_from_edges(prefix_attributes), do_invert_distance=False
GraphNumpyContainer_set_range_from_edges(_dict, prefix_attributes) ==
    IF IndicesMissing(_dict, prefix_attributes)
    THEN [raised |-> "ValueError", about |-> prefix_attributes, _dict |-> _dict]
    ELSE IF "edge_indices" \notin DOMAIN _dict
    THEN [raised |-> "KeyError", about |-> "", _dict |-> _dict]
    ELSE LET d1 == DictUpdate(_dict, "range_indices", _dict["edge_indices"])
         IN  IF "node_coordinates" \notin DOMAIN d1
                \/ d1["node_coordinates"].t = "NoneType"
             THEN [raised |-> "none", about |-> prefix_attributes, _dict |-> d1]
             ELSE IF ~CoordinatesCover(d1["node_coordinates"].rows, d1["range_indices"].rows)
             THEN [raised |-> "IndexError", about |-> "", _dict |-> d1]
             ELSE [raised |-> "none", about |-> prefix_attributes,
                   _dict |-> DictUpdate(d1, "range_attributes",
                                 NdArray2(Distance(d1["node_coordinates"].rows,
                                                   d1["range_indices"].rows)))]

\* coordinates_to_distancematrix(xyz) for nodes on a line
adj_coordinates_to_distancematrix(xyz) ==
    [i \in 1..Len(xyz) |->
        [j \in 1..Len(xyz) |->
            IF xyz[i][1] < xyz[j][1] THEN xyz[j][1] - xyz[i][1]
            ELSE xyz[i][1] - xyz[j][1]]]

\* the number of candidates of node i that come before j by distance, ties
\* taken in the order of the node ids
Rank(dist, i, j, self_loops) ==
    Cardinality({ k \in 1..Len(dist) :
                     /\ self_loops \/ k # i
                     /\ \/ dist[i][k] < dist[i][j]
                        \/ dist[i][k] = dist[i][j] /\ k < j })

\* the positions of a boolean matrix that hold True, row by row
TruePositions(cons) ==
    LET N == Len(cons)
        at == SortedSeq({ c \in 0..(N * N - 1) : cons[(c \div N) + 1][(c % N) + 1] })
    IN  [k \in 1..Len(at) |-> << at[k] \div N, at[k] % N >>]

\* define_adjacency_from_distance(dist, max_distance, max_neighbours,
\* exclusive, self_loops): the matrix of the selected pairs and their list.
\* max_distance counts halves of the unit of the coordinates.
adj_define_adjacency_from_distance(dist, max_distance, max_neighbours, exclusive, self_loops) ==
    LET cons == [i \in 1..Len(dist) |->
                    [j \in 1..Len(dist) |->
                        /\ self_loops \/ i # j
                        /\ IF exclusive
                           THEN /\ 2 * dist[i][j] <= max_distance
                                /\ Rank(dist, i, j, self_loops) < max_neighbours
                           ELSE \/ 2 * dist[i][j] <= max_distance
                                \/ Rank(dist, i, j, self_loops) < max_neighbours]]
    IN  [cons |-> cons, indices |-> TruePositions(cons)]

\* dist[mask]: the entries of dist where mask holds True, row by row
Masked(dist, mask) ==
    LET at == TruePositions(mask)
    IN  [k \in 1..Len(at) |-> dist[at[k][1] + 1][at[k][2] + 1]]

\* mutant: exclusive is not handed on, the default True is taken
GraphNumpyContainer_set_range_Exclusive(_dict, max_distance, max_neighbours, self_loops, exclusive) ==
    IF "node_coordinates" \notin DOMAIN _dict \/ _dict["node_coordinates"].t = "NoneType"
    THEN [raised |-> "none", about |-> "", _dict |-> _dict]
    ELSE LET dist == adj_coordinates_to_distancematrix(_dict["node_coordinates"].rows)
             a == adj_define_adjacency_from_distance(
                      dist, max_distance, max_neighbours, TRUE, self_loops)
         IN  [raised |-> "none", about |-> "",
              _dict |-> DictUpdate(
                            DictUpdate(_dict, "range_attributes",
                                       NdArray2(ExpandDims(Masked(dist, a.cons)))),
                            "range_indices", NdArray2(a.indices))]

\* set_range(max_distance, max_neighbours, self_loops, exclusive),
\* do_invert_distance=False
GraphNumpyContainer_set_range(_dict, max_distance, max_neighbours, self_loops, exclusive) ==
    IF "node_coordinates" \notin DOMAIN _dict \/ _dict["node_coordinates"].t = "NoneType"
    THEN [raised |-> "none", about |-> "", _dict |-> _dict]
    ELSE LET dist == adj_coordinates_to_distancematrix(_dict["node_coordinates"].rows)
             a == adj_define_adjacency_from_distance(
                      dist, max_distance, max_neighbours, exclusive, self_loops)
             mask == a.cons
             dist_masked == Masked(dist, mask)
         IN  [raised |-> "none", about |-> "",
              _dict |-> DictUpdate(
                            DictUpdate(_dict, "range_attributes",
                                       NdArray2(ExpandDims(dist_masked))),
                            "range_indices", NdArray2(a.indices))]

GraphNumpyContainer_set_angle(_dict, prefix_indices, allow_multi_edges, compute_angles) ==
    IF IndicesMissing(_dict, prefix_indices)
    THEN [raised |-> "ValueError", about |-> prefix_indices, _dict |-> _dict]
    ELSE LET a == adj_get_angle_indices(_dict[PrefixKey(prefix_indices, "indices")].rows,
                                        allow_multi_edges)
             d1 == DictUpdate(DictUpdate(_dict, "angle_indices", NdArray2(a.a_indices)),
                              "angle_indices_nodes", NdArray2(a.a_triples))
         IN  IF ~compute_angles
                \/ "node_coordinates" \notin DOMAIN d1
                \/ d1["node_coordinates"].t = "NoneType"
             THEN [raised |-> "none", about |-> prefix_indices, _dict |-> d1]
             ELSE IF \E k \in 1..Len(a.a_triples) : \E c \in 1..3 :
                        ~PyIndexOk(d1["node_coordinates"].rows, a.a_triples[k][c])
             THEN [raised |-> "IndexError", about |-> "", _dict |-> d1]
             ELSE [raised |-> "none", about |-> prefix_indices,
                   _dict |-> DictUpdate(d1, "angle_attributes",
                                 NdArray2(adj_get_angle(d1["node_coordinates"].rows,
                                                        a.a_triples)))]

(***************************************************************************)
(* MemoryGraphList.map_list                                                 *)
(***************************************************************************)
\* getattr(x, fun)(**kwargs) for a record x: the method of that name is
\* called with the default arguments and the prefix given; a name that is no
\* attribute of the record raises AttributeError
CallMethod(_dict, fun, kwargs) ==
    CASE fun = "set_edge_indices_reverse" ->
             GraphNumpyContainer_set_edge_indices_reverse(_dict, kwargs.prefix)
      [] fun = "make_undirected_edges" ->
             GraphNumpyContainer_make_undirected_edges(_dict, kwargs.prefix, TRUE, TRUE)
      [] fun = "sort_edge_indices" ->
             GraphNumpyContainer_sort_edge_indices(_dict, kwargs.prefix)
      [] fun = "set_range_from_edges" ->
             GraphNumpyContainer_set_range_from_edges(_dict, kwargs.prefix)
      [] OTHER -> [raised |-> "AttributeError", about |-> fun, _dict |-> _dict]

\* mutant: a record on which the method raises is skipped
RECURSIVE MemoryGraphList_map_list_Skips(_, _, _, _, _, _)
MemoryGraphList_map_list_Skips(self_list, h, fun, kwargs, n, invoked) ==
    IF n > Len(self_list)
    THEN [raised |-> "none", about |-> "", heap |-> h, invoked |-> invoked]
    ELSE LET r == CallMethod(h[self_list[n]], fun, kwargs)
         IN  MemoryGraphList_map_list_Skips(
                 self_list, [h EXCEPT ![self_list[n]] = r._dict], fun, kwargs,
                 n + 1, Append(invoked, n))

\* for x in self._list: getattr(x, fun)(**kwargs), from entry n on; invoked
\* lists the entries the method has been called on
RECURSIVE MemoryGraphList_map_list(_, _, _, _, _, _)
MemoryGraphList_map_list(self_list, h, fun, kwargs, n, invoked) ==
    IF n > Len(self_list)
    THEN [raised |-> "none", about |-> "", heap |-> h, invoked |-> invoked]
    ELSE LET r == CallMethod(h[self_list[n]], fun, kwargs)
             h1 == [h EXCEPT ![self_list[n]] = r._dict]
         IN  IF r.raised # "none"
             THEN [raised |-> r.raised, about |-> r.about, heap |-> h1,
                   invoked |-> Append(invoked, n)]
             ELSE MemoryGraphList_map_list(self_list, h1, fun, kwargs, n + 1,
                                           Append(invoked, n))

(***************************************************************************)
(* MemoryGraphDataset.save and load.  A pickled array is its dtype, its     *)
(* shape and its entries in one row; a pickled dictionary the set of its    *)
(* keys, each with its pickled array.                                       *)
(***************************************************************************)
RECURSIVE Flatten(_)
Flatten(rows) == IF rows = <<>> THEN <<>> ELSE Head(rows) \o Flatten(Tail(rows))

PickleArray(array) ==
    IF "dtype" \in DOMAIN array
    THEN [dtype |-> "object", shape |-> <<>>, flat |-> <<>>]
    ELSE IF array.ndim = 2
    THEN [dtype |-> "int",
          shape |-> << Len(array.rows),
                       IF array.rows = <<>> THEN 0 ELSE Len(array.rows[1]) >>,
          flat |-> Flatten(array.rows)]
    ELSE [dtype |-> "int",
          shape |-> IF array.ndim = 0 THEN <<>> ELSE << Len(array.data) >>,
          flat |-> array.data]

UnpickleArray(pickled) ==
    IF pickled.dtype = "object" THEN ObjectArray
    ELSE IF Len(pickled.shape) = 2
    THEN NdArray2([i \in 1..pickled.shape[1] |->
                      [j \in 1..pickled.shape[2] |->
                          pickled.flat[(i - 1) * pickled.shape[2] + j]]])
    ELSE NdArray(Len(pickled.shape), pickled.flat)

\* save_pickle_file(obj, filepath) for a list of dictionaries of arrays
save_pickle_file(obj) ==
    [i \in 1..Len(obj) |-> { <<key, PickleArray(obj[i][key])>> : key \in DOMAIN obj[i] }]

\* load_pickle_file(filepath)
load_pickle_file(pickled) ==
    [i \in 1..Len(pickled) |->
        [key \in { e[1] : e \in pickled[i] } |->
            UnpickleArray((CHOOSE e \in pickled[i] : e[1] = key)[2])]]

\* save(): the file holds the pickle of [x._dict for x in self._list]
MemoryGraphDataset_save(self_list, h) ==
    [raised |-> "none",
     pickle |-> save_pickle_file([i \in 1..Len(self_list) |-> h[self_list[i]]])]

\* what load leaves when the file is there: new records built from in_list
Loaded(h, new, in_list) ==
    [r \in RecordIds |->
        IF r \in Range(new)
        THEN NumpyContainer_init(in_list[CHOOSE i \in 1..Len(new) : new[i] = r])
        ELSE h[r]]

\* mutant: the records read are added to the ones the collection holds
MemoryGraphDataset_load_Extends(self_list, h, used, file) ==
    IF ~file.written
    THEN [raised |-> "FileNotFoundError", _list |-> self_list, heap |-> h]
    ELSE LET in_list == load_pickle_file(file.pickle)
             new == NewRecords(Len(in_list), used)
         IN  [raised |-> "none", _list |-> self_list \o new,
              heap |-> Loaded(h, new, in_list)]

\* load(): self._list = [GraphNumpyContainer(graph=x) for x in in_list]
MemoryGraphDataset_load(self_list, h, used, file) ==
    IF ~file.written
    THEN [raised |-> "FileNotFoundError", _list |-> self_list, heap |-> h]
    ELSE LET in_list == load_pickle_file(file.pickle)
             new == NewRecords(Len(in_list), used)
         IN  [raised |-> "none", _list |-> new, heap |-> Loaded(h, new, in_list)]

(***************************************************************************)
(* The collection as a state machine: data is the collection, view the      *)
(* collection the last selection returned.                                  *)
(***************************************************************************)
\* records no collection refers to any more are gone
Collect(h, live) == [r \in RecordIds |-> IF r \in live THEN h[r] ELSE EmptyDict]

ListOf(on) == IF on = "data" THEN _list ELSE view._list

\* no file has been written
NoFile == [written |-> FALSE]

LoaderIdle ==
    /\ graphs = <<>>
    /\ batch_size = 1
    /\ shuffle = FALSE
    /\ has_edges = FALSE
    /\ has_graph_state = FALSE
    /\ outputs = [type |-> "dict", names |-> <<"graph_labels">>]
    /\ data_index = <<>>
    /\ batch_index = 0
    /\ pc = "idle"
    /\ yielded = <<>>
    /\ schema = [given |-> FALSE]

\* data = MemoryGraphList()
ListInit ==
    /\ _list = <<>>
    /\ heap = [r \in RecordIds |-> EmptyDict]
    /\ view = [made |-> FALSE, _list |-> <<>>]
    /\ call = [op |-> "none"]
    /\ disk = NoFile
    /\ LoaderIdle

\* the collections after a method left collection on with new_list
Leave(on, new_list, h) ==
    /\ _list' = IF on = "data" THEN new_list ELSE _list
    /\ view' = IF on = "view" THEN [view EXCEPT !._list = new_list] ELSE view
    /\ heap' = Collect(h, Live(_list', view'))

\* data.assign_property(key, value), or view.assign_property(key, value) on
\* a selection that holds records
AssignProperty ==
    \E on \in {"data", "view"}, key \in Keys, value \in AssignValues :
        /\ call.op = "none"
        /\ on = "view" => view.made /\ view._list # <<>>
        /\ LET r == MemoryGraphList_assign_property(
                        ListOf(on), heap, Live(_list, view), key, value)
           IN  /\ Leave(on, r._list, r.heap)
               /\ call' = [op |-> "assign_property", on |-> on, key |-> key,
                           value |-> value, raised |-> r.raised]
        /\ UNCHANGED <<loaderVars, disk>>

\* data.obtain_property(key) or view.obtain_property(key)
ObtainProperty ==
    \E on \in {"data", "view"}, key \in Keys :
        /\ call.op = "none"
        /\ on = "view" => view.made
        /\ LET r == MemoryGraphList_obtain_property(ListOf(on), heap, key)
           IN  call' = [op |-> "obtain_property", on |-> on, key |-> key,
                        raised |-> "none", ret |-> r.ret, warning |-> r.warning]
        /\ UNCHANGED <<_list, heap, view>>
        /\ UNCHANGED <<loaderVars, disk>>

\* view = data[item]
GetItem ==
    \E item \in Items :
        LET r == MemoryGraphList_getitem(_list, heap, Live(_list, view), item)
        IN  /\ call.op = "none"
            /\ call' = [op |-> "getitem", item |-> item, raised |-> r.raised,
                        record |-> IF r.raised = "none" /\ item.t = "int"
                                   THEN r.record ELSE 0]
            /\ view' = IF r.raised = "none" /\ item.t # "int"
                       THEN [made |-> TRUE, _list |-> r.new_list] ELSE view
            /\ _list' = _list
            /\ heap' = Collect(r.heap, Live(_list', view'))
            /\ UNCHANGED <<loaderVars, disk>>

\* the caller has seen the outcome of its call and goes on
Return ==
    /\ call.op # "none"
    /\ call' = [op |-> "none"]
    /\ UNCHANGED <<_list, heap, view>>
    /\ UNCHANGED <<loaderVars, disk>>

ListNext == AssignProperty \/ ObtainProperty \/ GetItem \/ Return

ListSpec == ListInit /\ [][ListNext]_vars

(***************************************************************************)
(* clean() on a collection that was filled before: each record holds, or    *)
(* lacks, node_attributes (possibly of zero length), edge_indices and the   *)
(* scalar graph_size.                                                       *)
(***************************************************************************)
CleanKeys == {"node_attributes", "edge_indices", "graph_size"}

\* what a record can hold under a key after assign_property
Stored(key) ==
    CASE key = "node_attributes" -> {NpArray(PyList(<<>>)), NpArray(PyList(<<PyInt(1)>>))}
      [] key = "edge_indices" -> {NpArray(PyList(<<PyInt(1)>>))}
      [] key = "graph_size" -> {NpArray(PyInt(5))}

RECURSIVE DictsOver(_)
DictsOver(keys) ==
    IF keys = {} THEN {EmptyDict}
    ELSE LET key == CHOOSE k \in keys : TRUE
         IN  UNION { {d} \cup { DictUpdate(d, key, array) : array \in Stored(key) } :
                     d \in DictsOver(keys \ {key}) }

\* the lists clean is called with: names and descriptors
CleanInputs ==
    BoundedSeq({ PyStr(k) : k \in CleanKeys } \cup { PyDict(k) : k \in CleanKeys }, 2)

CleanInit ==
    /\ \E n \in 0..(MaxLength + 1) :
          /\ _list = [i \in 1..n |-> i]
          /\ \E dicts \in [1..n -> DictsOver(CleanKeys)] :
                heap = [r \in RecordIds |-> IF r <= n THEN dicts[r] ELSE EmptyDict]
    /\ view = [made |-> FALSE, _list |-> <<>>]
    /\ call = [op |-> "none"]
    /\ disk = NoFile
    /\ LoaderIdle

\* data.clean(inputs)
Clean ==
    \E inputs \in CleanInputs :
        /\ call.op = "none"
        /\ LET r == MemoryGraphList_clean(_list, heap, inputs)
           IN  /\ Leave("data", r._list, r.heap)
               /\ call' = [op |-> "clean", on |-> "data", inputs |-> inputs,
                           raised |-> r.raised]
        /\ UNCHANGED <<loaderVars, disk>>

CleanNext == Clean \/ Return

CleanSpec == CleanInit /\ [][CleanNext]_vars

(***************************************************************************)
(* One graph record, x = data[0], built from a raw mapping, and the         *)
(* operations made on it.  RecordSpec bounds the number of calls made,      *)
(* EdgeSpec makes any number of the operations on the index family.         *)
(***************************************************************************)
MaxCalls == 3

\* a python list of lists for rows of integers
PyRows(rows) ==
    PyList([i \in 1..Len(rows) |-> PyList([j \in 1..Len(rows[i]) |-> PyInt(rows[i][j])])])

\* index arrays a record is built with
IndexPool ==
    { << <<1, 0>>, <<0, 1>>, <<0, 0>> >>,
      << <<0, 1>>, <<1, 0>>, <<1, 2>> >>,
      << <<0, 1>>, <<0, 1>> >> }

\* attribute rows for an index array: row k holds 10 + k
AttributeRows(indices) == [k \in 1..Len(indices) |-> <<10 + k>>]

\* the nodes lie on a line, one unit apart
Coordinates == << <<0>>, <<1>>, <<2>> >>

\* the raw mappings a record is built from: with an edge index array and
\* possibly edge attributes of the same length, or with a range index array,
\* or with neither; with or without coordinates and a scalar label
RawMappings ==
    { m \in UNION { [keys -> {None} \cup { PyRows(r) : r \in IndexPool }
                               \cup { PyRows(AttributeRows(r)) : r \in IndexPool }
                               \cup { PyRows(Coordinates), PyInt(5) }] :
                    keys \in SUBSET {"edge_indices", "edge_attributes", "range_indices",
                                     "node_coordinates", "graph_labels"} } :
        /\ "edge_indices" \in DOMAIN m =>
               m["edge_indices"] \in { PyRows(r) : r \in IndexPool }
        /\ "edge_attributes" \in DOMAIN m =>
               /\ "edge_indices" \in DOMAIN m
               /\ \E r \in IndexPool : /\ m["edge_indices"] = PyRows(r)
                                       /\ m["edge_attributes"] = PyRows(AttributeRows(r))
        /\ "range_indices" \in DOMAIN m =>
               /\ "edge_indices" \notin DOMAIN m
               /\ m["range_indices"] = PyRows(<< <<0, 1>>, <<1, 0>>, <<1, 2>> >>)
        /\ "node_coordinates" \in DOMAIN m =>
               m["node_coordinates"] = PyRows(Coordinates)
        /\ "graph_labels" \in DOMAIN m => m["graph_labels"] \in {None, PyInt(5)} }

\* the keys and values of assign_property and item assignment on a record
RecordKeys == {"graph_labels"}
RecordValues == {None, PyInt(5), PyList(<<PyInt(1)>>)}

\* data = [GraphNumpyContainer(graph=m)]
RecordInit ==
    /\ _list = <<1>>
    /\ \E m \in RawMappings :
          heap = [r \in RecordIds |-> IF r = 1 THEN NumpyContainer_init(m) ELSE EmptyDict]
    /\ view = [made |-> FALSE, _list |-> <<>>]
    /\ call = [op |-> "none", calls |-> 0]
    /\ disk = NoFile
    /\ LoaderIdle

\* the calls the caller has made so far, when it counts them
CallsMade == IF "calls" \in DOMAIN call THEN call.calls ELSE 0

\* a call on the record: the record is left with r._dict and the call and
\* its outcome are kept
RecordCall(op, args, r) ==
    /\ call.op = "none"
    /\ CallsMade < MaxCalls
    /\ heap' = [heap EXCEPT ![_list[1]] = r._dict]
    /\ call' = [op |-> op, args |-> args, raised |-> r.raised, about |-> r.about,
                calls |-> CallsMade + 1]
    /\ UNCHANGED <<_list, view>>
    /\ UNCHANGED <<loaderVars, disk>>

\* x.assign_property(key, value)
RecordAssignProperty ==
    \E key \in RecordKeys, value \in RecordValues :
        RecordCall("assign_property", [key |-> key, value |-> value],
                   [raised |-> "none", about |-> "",
                    _dict |-> NumpyContainer_assign_property(heap[_list[1]], key, value)])

\* x[key] = value
RecordSetItem ==
    \E key \in RecordKeys, value \in RecordValues :
        RecordCall("setitem", [key |-> key, value |-> value],
                   [raised |-> "none", about |-> "",
                    _dict |-> NumpyContainer_setitem(heap[_list[1]], key, value)])

\* x.obtain_property(key)
RecordObtainProperty ==
    \E key \in RecordKeys \cup {"edge_indices"} :
        RecordCall("obtain_property",
                   [key |-> key,
                    ret |-> NumpyContainer_obtain_property(heap[_list[1]], key)],
                   [raised |-> "none", about |-> "", _dict |-> heap[_list[1]]])

SetEdgeIndicesReverse ==
    \E prefix \in Prefixes :
        RecordCall("set_edge_indices_reverse", [prefix |-> prefix],
                   GraphNumpyContainer_set_edge_indices_reverse(heap[_list[1]], prefix))

MakeUndirectedEdges ==
    \E prefix \in Prefixes, remove_duplicates \in BOOLEAN, sort_indices \in BOOLEAN :
        RecordCall("make_undirected_edges",
                   [prefix |-> prefix, remove_duplicates |-> remove_duplicates,
                    sort_indices |-> sort_indices],
                   GraphNumpyContainer_make_undirected_edges(
                       heap[_list[1]], prefix, remove_duplicates, sort_indices))

AddEdgeSelfLoops ==
    \E prefix \in Prefixes, remove_duplicates \in BOOLEAN, sort_indices \in BOOLEAN,
       fill_value \in {0, 7} :
        RecordCall("add_edge_self_loops",
                   [prefix |-> prefix, remove_duplicates |-> remove_duplicates,
                    sort_indices |-> sort_indices, fill_value |-> fill_value],
                   GraphNumpyContainer_add_edge_self_loops(
                       heap[_list[1]], prefix, remove_duplicates, sort_indices, fill_value))

SortEdgeIndices ==
    \E prefix \in Prefixes :
        RecordCall("sort_edge_indices", [prefix |-> prefix],
                   GraphNumpyContainer_sort_edge_indices(heap[_list[1]], prefix))

\* the weights are absent or all one: the rescaled weights are then known
NormalizeEdgeWeightsSym ==
    \E prefix \in Prefixes :
        /\ PrefixKey(prefix, "weights") \in DOMAIN heap[_list[1]] =>
               \A k \in 1..Len(heap[_list[1]][PrefixKey(prefix, "weights")].rows) :
                   heap[_list[1]][PrefixKey(prefix, "weights")].rows[k] = <<1>>
        /\ RecordCall("normalize_edge_weights_sym", [prefix |-> prefix],
                      GraphNumpyContainer_normalize_edge_weights_sym(heap[_list[1]], prefix))

SetRangeFromEdges ==
    \E prefix \in Prefixes :
        RecordCall("set_range_from_edges", [prefix |-> prefix],
                   GraphNumpyContainer_set_range_from_edges(heap[_list[1]], prefix))

SetAngle ==
    \E prefix \in Prefixes, allow_multi_edges \in BOOLEAN, compute_angles \in BOOLEAN :
        RecordCall("set_angle",
                   [prefix |-> prefix, allow_multi_edges |-> allow_multi_edges,
                    compute_angles |-> compute_angles],
                   GraphNumpyContainer_set_angle(
                       heap[_list[1]], prefix, allow_multi_edges, compute_angles))

\* the caller has seen the outcome and goes on, counting the call
RecordReturn ==
    /\ call.op # "none"
    /\ call' = [op |-> "none", calls |-> call.calls]
    /\ UNCHANGED <<_list, heap, view>>
    /\ UNCHANGED <<loaderVars, disk>>

RecordNext ==
    \/ RecordAssignProperty \/ RecordSetItem \/ RecordObtainProperty
    \/ SetEdgeIndicesReverse \/ MakeUndirectedEdges \/ AddEdgeSelfLoops
    \/ SortEdgeIndices \/ NormalizeEdgeWeightsSym \/ SetRangeFromEdges \/ SetAngle
    \/ RecordReturn

RecordSpec == RecordInit /\ [][RecordNext]_vars

\* any number of the operations that reorder or extend an index family, and
\* of the reverse map
EdgeNext ==
    \/ SetEdgeIndicesReverse \/ MakeUndirectedEdges \/ AddEdgeSelfLoops
    \/ SortEdgeIndices \/ Return

EdgeSpec == RecordInit /\ [][EdgeNext]_vars

(***************************************************************************)
(* One record with or without weights of one, and the operations on its     *)
(* edges with the normalisation of the weights, any number of them.         *)
(***************************************************************************)
\* the raw mappings: edges or none, with or without attributes, weights of
\* one and a label
WeightMappings ==
    { m \in UNION { [keys -> { PyRows(r) : r \in IndexPool }
                               \cup { PyRows(AttributeRows(r)) : r \in IndexPool }
                               \cup { PyRows(Ones(Len(r))) : r \in IndexPool }
                               \cup { PyInt(5) }] :
                    keys \in SUBSET {"edge_indices", "edge_attributes", "edge_weights",
                                     "graph_labels"} } :
        /\ "edge_indices" \in DOMAIN m =>
               m["edge_indices"] \in { PyRows(r) : r \in IndexPool }
        /\ \A key \in {"edge_attributes", "edge_weights"} :
               key \in DOMAIN m => "edge_indices" \in DOMAIN m
        /\ "edge_attributes" \in DOMAIN m =>
               \E r \in IndexPool : /\ m["edge_indices"] = PyRows(r)
                                    /\ m["edge_attributes"] = PyRows(AttributeRows(r))
        /\ "edge_weights" \in DOMAIN m =>
               \E r \in IndexPool : /\ m["edge_indices"] = PyRows(r)
                                    /\ m["edge_weights"] = PyRows(Ones(Len(r)))
        /\ "graph_labels" \in DOMAIN m => m["graph_labels"] = PyInt(5) }

WeightInit ==
    /\ _list = <<1>>
    /\ \E m \in WeightMappings :
          heap = [r \in RecordIds |-> IF r = 1 THEN NumpyContainer_init(m) ELSE EmptyDict]
    /\ view = [made |-> FALSE, _list |-> <<>>]
    /\ call = [op |-> "none"]
    /\ disk = NoFile
    /\ LoaderIdle

WeightNext == NormalizeEdgeWeightsSym \/ SortEdgeIndices \/ SetEdgeIndicesReverse \/ Return

WeightSpec == WeightInit /\ [][WeightNext]_vars

(***************************************************************************)
(* A dataset that is saved, cleared and loaded.  The file keeps, next to    *)
(* the pickle, the dictionaries that were saved, for the properties.        *)
(***************************************************************************)
\* the raw mappings of the records: a scalar, a 2-d array with a label of
\* None, a 1-d array, or nothing
SaveMappings ==
    { EmptyDict,
      [graph_size |-> PyInt(5)],
      [edge_indices |-> PyRows(<< <<0, 1>>, <<1, 0>> >>), graph_labels |-> None],
      [node_number |-> PyList(<<PyInt(1), PyInt(6)>>)] }

SaveInit ==
    /\ \E n \in 0..MaxLength :
          /\ _list = [i \in 1..n |-> i]
          /\ \E graphs_ \in [1..n -> SaveMappings] :
                heap = [r \in RecordIds |-> IF r <= n THEN NumpyContainer_init(graphs_[r])
                                            ELSE EmptyDict]
    /\ view = [made |-> FALSE, _list |-> <<>>]
    /\ call = [op |-> "none"]
    /\ disk = NoFile
    /\ LoaderIdle

\* data.save()
Save ==
    /\ call.op = "none"
    /\ LET r == MemoryGraphDataset_save(_list, heap)
       IN  /\ disk' = [written |-> TRUE, pickle |-> r.pickle,
                       of |-> [i \in 1..Len(_list) |-> heap[_list[i]]]]
           /\ call' = [op |-> "save", raised |-> r.raised]
    /\ UNCHANGED <<_list, heap, view>>
    /\ UNCHANGED loaderVars

\* data.load()
Load ==
    /\ call.op = "none"
    /\ LET r == MemoryGraphDataset_load(_list, heap, Live(_list, view), disk)
       IN  /\ Leave("data", r._list, r.heap)
           /\ call' = [op |-> "load", raised |-> r.raised, held |-> Len(_list)]
    /\ UNCHANGED disk
    /\ UNCHANGED loaderVars

\* data.clear()
Clear ==
    /\ call.op = "none"
    /\ Leave("data", <<>>, heap)
    /\ call' = [op |-> "clear", raised |-> "none"]
    /\ UNCHANGED disk
    /\ UNCHANGED loaderVars

\* the caller has seen the outcome and goes on
SaveReturn ==
    /\ call.op # "none"
    /\ call' = [op |-> "none"]
    /\ UNCHANGED <<_list, heap, view, disk>>
    /\ UNCHANGED loaderVars

SaveNext == Save \/ Load \/ Clear \/ SaveReturn

SaveSpec == SaveInit /\ [][SaveNext]_vars

(***************************************************************************)
(* serial.py: deserialize.  A dictionary is its keys in their order and the *)
(* class name it holds; the dataset instance keeps the calls made on it.    *)
(***************************************************************************)
global_dataset_register == {"MoleculeNetDataset", "QMDataset", "GraphTUDataset"}

method_list == <<"prepare_data", "read_in_memory", "set_attributes">>

PyDataset(keys, class_name) == [t |-> "dict", keys |-> keys, class_name |-> class_name]

\* x in dataset
InDataset(x, dataset) == \E i \in 1..Len(dataset.keys) : dataset.keys[i] = x

\* the sets of loading methods an instance of the class may have:
\* MoleculeNetDataset defines the three of them
ClassMethods(class_name) ==
    IF class_name = "MoleculeNetDataset" THEN {Range(method_list)}
    ELSE SUBSET Range(method_list)

\* ds_class(**config): the class of the register, or the class named like
\* its module in kgcnn.data.datasets; the module ESOL fails to import a
\* name, any other module is not found
BuildInstance(dataset) ==
    IF dataset.class_name \in global_dataset_register
    THEN [raised |-> "none",
          ds_instance |-> [t |-> "dataset", class_name |-> dataset.class_name,
                           config |-> InDataset("config", dataset)]]
    ELSE IF dataset.class_name = "ESOL"
    THEN [raised |-> "ImportError", ds_instance |-> None]
    ELSE [raised |-> "NotImplementedError", ds_instance |-> None]

\* mutant: the methods are called in the order of the keys of the dictionary
RECURSIVE CallMethods_KeyOrder(_, _, _, _, _)
CallMethods_KeyOrder(dataset, has, failing, n, calls) ==
    IF n > Len(dataset.keys) THEN [raised |-> "none", calls |-> calls]
    ELSE LET x == dataset.keys[n]
         IN  IF x \in Range(method_list) /\ x \in has
             THEN IF x = failing
                  THEN [raised |-> "Exception", calls |-> Append(calls, x)]
                  ELSE CallMethods_KeyOrder(dataset, has, failing, n + 1, Append(calls, x))
             ELSE CallMethods_KeyOrder(dataset, has, failing, n + 1, calls)

\* for x in method_list: if x in dataset and hasattr(ds_instance, x):
\* getattr(ds_instance, x)(**dataset[x]), from entry n of method_list on.
\* has are the methods the instance has, failing the method that raises.
RECURSIVE CallMethods(_, _, _, _, _)
CallMethods(dataset, has, failing, n, calls) ==
    IF n > Len(method_list) THEN [raised |-> "none", calls |-> calls]
    ELSE LET x == method_list[n]
         IN  IF InDataset(x, dataset) /\ x \in has
             THEN IF x = failing
                  THEN [raised |-> "Exception", calls |-> Append(calls, x)]
                  ELSE CallMethods(dataset, has, failing, n + 1, Append(calls, x))
             ELSE CallMethods(dataset, has, failing, n + 1, calls)

\* deserialize(dataset): what it raised, what it returned and the calls made
\* on the instance, the construction first
deserialize(dataset, has, failing) ==
    IF dataset.t \notin {"dict", "str"}
    THEN [raised |-> "none", ret |-> dataset, calls |-> <<>>]
    ELSE LET d == IF dataset.t = "str"
                  THEN PyDataset(<<"class_name", "config">>, dataset.s)
                  ELSE dataset
             b == BuildInstance(d)
         IN  IF b.raised # "none"
             THEN [raised |-> b.raised, ret |-> None, calls |-> <<>>]
             ELSE LET c == CallMethods(d, has, failing, 1, <<"__init__">>)
                  IN  [raised |-> c.raised,
                       ret |-> IF c.raised = "none" THEN b.ds_instance ELSE None,
                       calls |-> c.calls]

\* the class names a serialization is made with
ClassNames == {"MoleculeNetDataset", "GraphTUDataset", "ESOL", "NoSuchDataset"}

\* the keys of a serialization besides class_name
DatasetKeys == {"config", "prepare_data", "read_in_memory", "set_attributes"}

\* the sequences without repetition of entries of S
Orders(S) ==
    { q \in BoundedSeq(S, Cardinality(S)) : \A i, j \in 1..Len(q) : q[i] = q[j] => i = j }

\* the inputs of deserialize: dictionaries with class_name and any of the
\* keys in any order, class names, and values that are neither
DatasetInputs ==
    { PyDataset(keys, class_name) :
          keys \in { q \in Orders(DatasetKeys \cup {"class_name"}) :
                        \E i \in 1..Len(q) : q[i] = "class_name" },
          class_name \in ClassNames }
        \cup { PyStr(class_name) : class_name \in ClassNames }
        \cup { None, [t |-> "dataset", class_name |-> "MoleculeNetDataset", config |-> FALSE] }

SerialInit ==
    /\ _list = <<>>
    /\ heap = [r \in RecordIds |-> EmptyDict]
    /\ view = [made |-> FALSE, _list |-> <<>>]
    /\ call = [op |-> "none"]
    /\ disk = NoFile
    /\ LoaderIdle

\* deserialize(dataset)
Deserialize ==
    \E dataset \in DatasetInputs,
       failing \in Range(method_list) \cup {"none"} :
        \E has \in (IF dataset.t \in {"dict", "str"}
                    THEN ClassMethods(IF dataset.t = "str" THEN dataset.s
                                      ELSE dataset.class_name)
                    ELSE {Range(method_list)}) :
            /\ call.op = "none"
            /\ LET r == deserialize(dataset, has, failing)
               IN  call' = [op |-> "deserialize", dataset |-> dataset, has |-> has,
                            raised |-> r.raised, ret |-> r.ret, calls |-> r.calls]
            /\ UNCHANGED <<_list, heap, view>>
            /\ UNCHANGED <<loaderVars, disk>>

SerialNext == Deserialize \/ Return

SerialSpec == SerialInit /\ [][SerialNext]_vars

(***************************************************************************)
(* A collection of records with and without edges, and map_list on it.      *)
(***************************************************************************)
\* the raw mappings of the records: no edges, edges, or edges with
\* attributes and coordinates for two of the three nodes
MapMappings ==
    { [graph_labels |-> PyInt(5)],
      [edge_indices |-> PyRows(<< <<1, 0>>, <<0, 1>>, <<0, 0>> >>)],
      [edge_indices |-> PyRows(<< <<0, 1>>, <<1, 0>>, <<1, 2>> >>),
       edge_attributes |-> PyRows(<< <<11>>, <<12>>, <<13>> >>),
       node_coordinates |-> PyRows(<< <<0>>, <<1>> >>)] }

\* the names map_list is called with
MapFunctions ==
    {"set_edge_indices_reverse", "make_undirected_edges", "sort_edge_indices",
     "set_range_from_edges", "no_such_method"}

MapInit ==
    /\ \E n \in 0..(MaxLength + 1) :
          /\ _list = [i \in 1..n |-> i]
          /\ \E graphs_ \in [1..n -> MapMappings] :
                heap = [r \in RecordIds |-> IF r <= n THEN NumpyContainer_init(graphs_[r])
                                            ELSE EmptyDict]
    /\ view = [made |-> FALSE, _list |-> <<>>]
    /\ call = [op |-> "none"]
    /\ disk = NoFile
    /\ LoaderIdle

\* data.map_list(fun, prefix_attributes=prefix)
MapList ==
    \E fun \in MapFunctions, prefix \in Prefixes :
        /\ call.op = "none"
        /\ LET r == MemoryGraphList_map_list(_list, heap, fun, [prefix |-> prefix], 1, <<>>)
           IN  /\ heap' = r.heap
               /\ call' = [op |-> "map_list", fun |-> fun, kwargs |-> [prefix |-> prefix],
                           raised |-> r.raised, about |-> r.about, invoked |-> r.invoked]
        /\ UNCHANGED <<_list, view>>
        /\ UNCHANGED <<loaderVars, disk>>

MapNext == MapList \/ Return

MapSpec == MapInit /\ [][MapNext]_vars

(***************************************************************************)
(* One record whose arrays are objects: an array stored at construction     *)
(* carries the identity of its storage in id, and a value stored under two  *)
(* keys by an assignment is one object.  The caller changes an array it     *)
(* obtained from the record in place.                                       *)
(***************************************************************************)
\* the array as the object with the storage id
Stores(array, id) ==
    [f \in DOMAIN array \cup {"id"} |-> IF f = "id" THEN id ELSE array[f]]

\* np.array(value) for every value of the mapping makes one new object each
WithStorage(_dict) ==
    [key \in DOMAIN _dict |->
        Stores(_dict[key], CHOOSE n \in 1..Len(KeyOrder) : KeyOrder[n] = key)]

\* two keys of the record hold the same object
SameObject(_dict, key, other) ==
    /\ "id" \in DOMAIN _dict[key]
    /\ "id" \in DOMAIN _dict[other]
    /\ _dict[key].id = _dict[other].id

\* x.obtain_property(key)[r, c] = value: the object under key is changed,
\* and is seen changed under every key that holds it
InPlace(_dict, key, r, c, value) ==
    [k \in DOMAIN _dict |->
        IF k = key \/ SameObject(_dict, k, key)
        THEN [_dict[k] EXCEPT !.rows[r + 1][c + 1] = value]
        ELSE _dict[k]]

\* the raw mappings: edges, with or without range indices of their own and
\* coordinates
AliasMappings ==
    { m \in UNION { [keys -> { PyRows(r) : r \in IndexPool } \cup { PyRows(Coordinates) }] :
                    keys \in { K \in SUBSET {"edge_indices", "range_indices",
                                             "node_coordinates"} :
                                  "edge_indices" \in K } } :
        /\ m["edge_indices"] \in { PyRows(r) : r \in IndexPool }
        /\ "range_indices" \in DOMAIN m => m["range_indices"] = m["edge_indices"]
        /\ "node_coordinates" \in DOMAIN m =>
               m["node_coordinates"] = PyRows(Coordinates) }

AliasInit ==
    /\ _list = <<1>>
    /\ \E m \in AliasMappings :
          heap = [r \in RecordIds |-> IF r = 1 THEN WithStorage(NumpyContainer_init(m))
                                      ELSE EmptyDict]
    /\ view = [made |-> FALSE, _list |-> <<>>]
    /\ call = [op |-> "none", calls |-> 0]
    /\ disk = NoFile
    /\ LoaderIdle

\* x.obtain_property(key)[0, c] = 7
InPlaceWrite ==
    \E key \in {"edge_indices", "range_indices"}, c \in 0..1 :
        /\ key \in DOMAIN heap[_list[1]]
        /\ RecordCall("inplace", [key |-> key, r |-> 0, c |-> c, value |-> 7],
                      [raised |-> "none", about |-> "",
                       _dict |-> InPlace(heap[_list[1]], key, 0, c, 7)])

AliasNext == SetRangeFromEdges \/ InPlaceWrite \/ RecordReturn

AliasSpec == AliasInit /\ [][AliasNext]_vars

(***************************************************************************)
(* One record with or without coordinates and the operations that build     *)
(* ranges and angles on it, any number of them.                             *)
(***************************************************************************)
\* four nodes on a line: one unit apart, or in two pairs
CoordinatePool ==
    { << <<0>>, <<1>>, <<2>>, <<3>> >>,
      << <<0>>, <<1>>, <<3>>, <<4>> >> }

\* the raw mappings: coordinates or none, edges between the first three
\* nodes or none
GeometryMappings ==
    { m \in UNION { [keys -> { PyRows(r) : r \in CoordinatePool \cup IndexPool }] :
                    keys \in SUBSET {"node_coordinates", "edge_indices"} } :
        /\ "node_coordinates" \in DOMAIN m =>
               m["node_coordinates"] \in { PyRows(r) : r \in CoordinatePool }
        /\ "edge_indices" \in DOMAIN m =>
               m["edge_indices"] = PyRows(<< <<0, 1>>, <<1, 0>>, <<1, 2>> >>) }

GeometryInit ==
    /\ _list = <<1>>
    /\ \E m \in GeometryMappings :
          heap = [r \in RecordIds |-> IF r = 1 THEN NumpyContainer_init(m) ELSE EmptyDict]
    /\ view = [made |-> FALSE, _list |-> <<>>]
    /\ call = [op |-> "none"]
    /\ disk = NoFile
    /\ LoaderIdle

\* x.set_range(max_distance, max_neighbours, self_loops=.., exclusive=..),
\* max_distance 0.5 or 1.5
SetRange ==
    \E max_distance \in {1, 3}, max_neighbours \in {1, 2, 10},
       self_loops \in BOOLEAN, exclusive \in BOOLEAN :
        RecordCall("set_range",
                   [max_distance |-> max_distance, max_neighbours |-> max_neighbours,
                    self_loops |-> self_loops, exclusive |-> exclusive],
                   GraphNumpyContainer_set_range(
                       heap[_list[1]], max_distance, max_neighbours, self_loops, exclusive))

GeometryNext == SetRange \/ SetRangeFromEdges \/ SetAngle \/ Return

GeometrySpec == GeometryInit /\ [][GeometryNext]_vars

(***************************************************************************)
(* tf_disjoint_list_generator.generator: the inputs are described by       *)
(* the lists the caller hands over, kept in schema.                        *)
(***************************************************************************)
num_inputs == Len(schema.inputs)

all_flags == <<schema.flag_batch_id, schema.flag_count, schema.flag_subgraph_id>>

\* line 114 subscripts every flag list: a flag list left at None raises
FlagsRaise ==
    /\ num_inputs > 0
    /\ \E f \in 1..Len(all_flags) : all_flags[f].t = "NoneType"

\* line 114: an input is an attribute when none of its three flags is None
is_attributes ==
    [i \in 1..num_inputs |->
        \A f \in 1..Len(all_flags) : all_flags[f].items[i].t # "NoneType"]

\* line 118
num_attributes == Cardinality({ i \in 1..num_inputs : is_attributes[i] })

\* an entry of out or out_counts: still None, or an array
Unset == [set |-> FALSE]
Set(value) == [set |-> TRUE, value |-> value]

\* lines 130-147, from input i (0-based) on; where_count is the empty list,
\* so the branch of an assigned input ends in an IndexError
RECURSIVE ListAttributes(_, _, _, _)
ListAttributes(graphs_batch, i, out, out_counts) ==
    IF i >= num_inputs
    THEN [raised |-> "none", out |-> out, out_counts |-> out_counts]
    ELSE IF ~is_attributes[i + 1]
    THEN ListAttributes(graphs_batch, i + 1, out, out_counts)
    ELSE LET name       == schema.inputs[i + 1]
             array_list == ArrayList(graphs_batch, name)
         IN  IF schema.assignment_to_id.t = "NoneType"
             THEN [raised |-> "TypeError", out |-> out, out_counts |-> out_counts]
             ELSE IF schema.assignment_to_id.items[i + 1].t = "NoneType"
             THEN IF ~Stackable(array_list, NodeLevel(name))
                  THEN [raised |-> "ValueError", out |-> out,
                        out_counts |-> out_counts]
                  ELSE IF i >= Len(out)
                  THEN [raised |-> "IndexError", out |-> out,
                        out_counts |-> out_counts]
                  ELSE ListAttributes(graphs_batch, i + 1,
                           [out EXCEPT ![i + 1] = Set(NpStack(array_list))],
                           out_counts)
             ELSE IF i >= Len(out)
                  THEN [raised |-> "IndexError", out |-> out,
                        out_counts |-> out_counts]
                  ELSE [raised |-> "IndexError",
                        out |-> [out EXCEPT ![i + 1] = Set(Concatenate(array_list))],
                        out_counts |->
                            [out_counts EXCEPT ![i + 1] = Set(Counts(array_list))]]

\* lines 150-159, from input i (0-based) on: the node offsets are added to
\* the index input out of the counts the first loop stored
RECURSIVE ListIndices(_, _, _)
ListIndices(i, out, out_counts) ==
    IF i >= num_inputs
    THEN [raised |-> "none", out |-> out]
    ELSE IF schema.assignment_of_indices.t = "NoneType"
    THEN [raised |-> "TypeError", out |-> out]
    ELSE IF schema.assignment_of_indices.items[i + 1].t = "NoneType"
    THEN ListIndices(i + 1, out, out_counts)
    ELSE LET of == schema.assignment_of_indices.items[i + 1].data[1]
         IN  IF i >= Len(out) \/ of >= Len(out_counts)
             THEN [raised |-> "IndexError", out |-> out]
             ELSE IF \/ ~out_counts[of + 1].set
                     \/ ~out_counts[i + 1].set
                     \/ ~out[i + 1].set
             THEN [raised |-> "TypeError", out |-> out]
             ELSE ListIndices(i + 1,
                      [out EXCEPT ![i + 1] =
                          Set(DisjointIndices(out[i + 1].value,
                                  OffsetEdgeIndices(out_counts[of + 1].value,
                                                    out_counts[i + 1].value)))],
                      out_counts)

\* lines 127-159: the inputs of one batch, or the exception raised
ListBatchInputs(graphs_batch) ==
    LET none  == [k \in 1..num_attributes |-> Unset]
        first == ListAttributes(graphs_batch, 0, none, none)
    IN  IF first.raised # "none"
        THEN [raised |-> first.raised, out |-> first.out]
        ELSE ListIndices(0, first.out, first.out_counts)

\* the lists a caller describes a node-level input and an index input with
ListInputs == <<"node_attributes", "edge_indices">>

AllSet(n) == PyList([i \in 1..n |-> PyInt(1)])

NoneAt(n, k) == PyList([i \in 1..n |-> IF i = k THEN None ELSE PyInt(1)])

SchemaChoices ==
    LET n == Len(ListInputs)
    IN  { [given |-> TRUE,
           inputs |-> ListInputs,
           assignment_to_id |-> a,
           assignment_of_indices |-> o,
           flag_batch_id |-> b,
           flag_count |-> c,
           flag_subgraph_id |-> AllSet(n)] :
            a \in { None, PyList(<<None, None>>), PyList(<<PyInt(0), None>>),
                    PyList(<<PyInt(0), PyInt(1)>>) },
            o \in { None, PyList(<<None, None>>), PyList(<<None, PyInt(0)>>) },
            b \in { None, AllSet(n) },
            c \in { AllSet(n), NoneAt(n, 1), NoneAt(n, 2) } }

ListLoaderInit ==
    /\ graphs \in BoundedSeq(GraphPool, MaxGraphs)
    /\ batch_size \in 1..MaxBatchSize
    /\ shuffle \in BOOLEAN
    /\ has_edges = FALSE
    /\ has_graph_state = FALSE
    /\ outputs \in { c \in OutputChoices : c.type = "dict" /\ ~NodeLevel(c.names[1]) }
    /\ data_index = <<>>
    /\ batch_index = 0
    /\ pc = "start"
    /\ yielded = <<>>
    /\ schema \in SchemaChoices
    /\ ListIdle

\* lines 110-121: the flags are read, data_index is shuffled when asked
ListGeneratorStart ==
    /\ pc = "start"
    /\ IF FlagsRaise
       THEN /\ pc' = "raised"
            /\ UNCHANGED <<data_index, batch_index>>
       ELSE /\ data_index' \in (IF shuffle THEN Shuffled(dataset_size)
                                           ELSE {Arange(dataset_size)})
            /\ batch_index' = 0
            /\ pc' = "loop"
    /\ UNCHANGED <<graphs, batch_size, shuffle, has_edges, has_graph_state,
                   outputs, yielded, schema>>
    /\ UNCHANGED listVars

\* lines 123-170: one iteration of the batch loop
ListGeneratorBatch ==
    /\ pc = "loop"
    /\ batch_index < dataset_size
    /\ LET inputs == ListBatchInputs(GraphsBatch)
       IN  IF inputs.raised # "none" \/ OutputsRaise(GraphsBatch)
           THEN /\ pc' = "raised"
                /\ UNCHANGED <<yielded, batch_index>>
           ELSE /\ yielded' = Append(yielded,
                                  [idx   |-> Idx,
                                   out   |-> inputs.out,
                                   out_y |-> BatchOutputs(GraphsBatch)])
                /\ batch_index' = batch_index + batch_size
                /\ pc' = "loop"
    /\ UNCHANGED <<graphs, batch_size, shuffle, has_edges, has_graph_state,
                   outputs, data_index, schema>>
    /\ UNCHANGED listVars

\* the range is exhausted: the generator returns
ListGeneratorReturn ==
    /\ pc = "loop"
    /\ batch_index >= dataset_size
    /\ pc' = "done"
    /\ UNCHANGED <<graphs, batch_size, shuffle, has_edges, has_graph_state,
                   outputs, data_index, batch_index, yielded, schema>>
    /\ UNCHANGED listVars

ListLoaderNext == ListGeneratorStart \/ ListGeneratorBatch \/ ListGeneratorReturn

ListLoaderSpec == ListLoaderInit /\ [][ListLoaderNext]_vars

(***************************************************************************)
(* Properties of the batch generator.                                      *)
(***************************************************************************)
RECURSIVE SumSeq(_)
SumSeq(a) == IF a = <<>> THEN 0 ELSE Head(a) + SumSeq(Tail(a))

\* the g-th graph of a yielded batch
BatchGraph(b, g) == graphs[b.idx[g] + 1]

\* rows of attribute name held by the graphs before the g-th one of batch b
RowsBefore(b, g, name) ==
    SumSeq([h \in 1..(g - 1) |-> Len(BatchGraph(b, h)[name])])

RowsTotal(b, name) == RowsBefore(b, Len(b.idx) + 1, name)

\* where the generator puts the arrays in the tuple it yields
IndexPos == Len(Inputs)
BatchIdNodePos == Len(Inputs) + 1
BatchIdEdgePos == Len(Inputs) + 2
NodeIdPos == Len(Inputs) + 3
EdgeIdPos == Len(Inputs) + 4
CountNodesPos == Len(Inputs) + 5
CountEdgesPos == Len(Inputs) + 6

Ceil(n, b) == (n + b - 1) \div b

\* C1: in every yielded batch, edge k = (i, j) of the g-th graph appears in
\* the disjoint index array as (i + offset(g), j + offset(g)), offset(g) being
\* the number of nodes of the graphs before g in the batch; the array has 2
\* rows and one column per edge of the batch.
C1_DisjointOffset ==
    \A n \in 1..Len(yielded) :
        LET b == yielded[n]
            disjoint_indices == b.out[IndexPos]
        IN  /\ Len(disjoint_indices) = 2
            /\ Len(disjoint_indices[1]) = RowsTotal(b, "edge_indices")
            /\ Len(disjoint_indices[2]) = RowsTotal(b, "edge_indices")
            /\ \A g \in 1..Len(b.idx) :
                 \A k \in 1..Len(BatchGraph(b, g).edge_indices) :
                    LET e      == BatchGraph(b, g).edge_indices[k]
                        col    == RowsBefore(b, g, "edge_indices") + k
                        offset == RowsBefore(b, g, "node_attributes")
                    IN  /\ disjoint_indices[1][col] = e[1] + offset
                        /\ disjoint_indices[2][col] = e[2] + offset

\* graphs with 3 and 2 nodes, each with edge (0, 1), batched together, give
\* the disjoint edges (0, 1) and (3, 4)
C1_Witness ==
    \E n \in 1..Len(yielded) :
        /\ Len(yielded[n].idx) = 2
        /\ Len(BatchGraph(yielded[n], 1).node_attributes) = 3
        /\ Len(BatchGraph(yielded[n], 2).node_attributes) = 2
        /\ BatchGraph(yielded[n], 1).edge_indices = << <<0, 1>> >>
        /\ BatchGraph(yielded[n], 2).edge_indices = << <<0, 1>> >>
        /\ yielded[n].out[IndexPos] = << <<0, 3>>, <<1, 4>> >>

\* the id arrays of attribute name in batch b: one entry per concatenated
\* row, the batch id being the 0-based position of the row's graph and the
\* local id counting 0..count-1 within each graph
IdArraysRight(b, name, batch_id, local_id, count) ==
    /\ Len(batch_id) = RowsTotal(b, name)
    /\ Len(local_id) = RowsTotal(b, name)
    /\ Len(count) = Len(b.idx)
    /\ \A g \in 1..Len(b.idx) :
         /\ count[g] = Len(BatchGraph(b, g)[name])
         /\ \A r \in 1..Len(BatchGraph(b, g)[name]) :
              /\ batch_id[RowsBefore(b, g, name) + r] = g - 1
              /\ local_id[RowsBefore(b, g, name) + r] = r - 1

\* C2: the node batch-id and local-id arrays have one entry per concatenated
\* node row (graph position, and 0..count-1 restarting per graph); the edge
\* arrays likewise from the edge counts; lengths are the sums of the counts.
C2_IdArrays ==
    \A n \in 1..Len(yielded) :
        LET b == yielded[n]
        IN  /\ Len(b.out[1]) = RowsTotal(b, "node_attributes")
            /\ Len(b.out[BatchIdNodePos]) = SumSeq(b.out[CountNodesPos])
            /\ Len(b.out[BatchIdEdgePos]) = SumSeq(b.out[CountEdgesPos])
            /\ IdArraysRight(b, "node_attributes", b.out[BatchIdNodePos],
                             b.out[NodeIdPos], b.out[CountNodesPos])
            /\ IdArraysRight(b, "edge_indices", b.out[BatchIdEdgePos],
                             b.out[EdgeIdPos], b.out[CountEdgesPos])

\* a batch of 3 graphs, the second with two edges
C2_Witness ==
    \E n \in 1..Len(yielded) :
        /\ Len(yielded[n].idx) = 3
        /\ Len(BatchGraph(yielded[n], 1).node_attributes) = 3
        /\ Len(BatchGraph(yielded[n], 2).edge_indices) = 2
        /\ yielded[n].out[BatchIdNodePos][4] = 1
        /\ yielded[n].out[NodeIdPos][4] = 0

\* C3: a full pass over n samples yields ceil(n/b) batches, all of b
\* samples but the last, which holds the remaining 1..b samples; an empty
\* collection yields none; each iteration advances by b, so the pass ends.
C3_BatchCount ==
    LET n == dataset_size
        b == batch_size
    IN  /\ pc \in {"loop", "done"} =>
             /\ batch_index = b * Len(yielded)
             /\ Len(yielded) <= Ceil(n, b)
        /\ pc = "done" =>
             /\ Len(yielded) = Ceil(n, b)
             /\ n = 0 => yielded = <<>>
             /\ \A k \in 1..Len(yielded) :
                  Len(yielded[k].idx) =
                      IF k < Len(yielded) THEN b ELSE n - b * (Ceil(n, b) - 1)
             /\ \A k \in 1..Len(yielded) :
                  Len(yielded[k].idx) \in 1..b

\* a finished pass of 3 samples in batches of 2: a full and a short batch
C3_Witness ==
    /\ pc = "done"
    /\ dataset_size = 3
    /\ batch_size = 2
    /\ Len(yielded) = 2
    /\ Len(yielded[2].idx) = 1

AllIdx == Concatenate([k \in 1..Len(yielded) |-> yielded[k].idx])

\* C4: the batches of a pass partition the sample indices, and keep the
\* collection order when shuffle is off.
C4_Partition ==
    /\ \A i, j \in 1..Len(AllIdx) : AllIdx[i] = AllIdx[j] => i = j
    /\ \A i \in 1..Len(AllIdx) : AllIdx[i] \in 0..(dataset_size - 1)
    /\ pc = "done" => \A s \in 0..(dataset_size - 1) :
                          \E i \in 1..Len(AllIdx) : AllIdx[i] = s
    /\ ~shuffle => \A i \in 1..Len(AllIdx) : AllIdx[i] = i - 1

\* a finished shuffled pass whose first batch does not start with sample 0
C4_Witness ==
    /\ pc = "done"
    /\ shuffle
    /\ dataset_size = 3
    /\ Len(yielded) = 2
    /\ yielded[1].idx[1] # 0

\* one row per graph of the batch, in batch order, holding that graph's value
OneRowPerGraph(b, stacked, name) ==
    /\ Len(stacked) = Len(b.idx)
    /\ \A g \in 1..Len(b.idx) : stacked[g] = BatchGraph(b, g)[name]

OutY(b, k) == IF outputs.type = "list" THEN b.out_y[k] ELSE b.out_y

\* C5 as amended: in every yielded batch the graph-level input and every
\* output label, a node-level or edge-level target included, is stacked one
\* row per graph, in batch order and without offset; the generator raises
\* instead of yielding only for a node-level or edge-level target whose row
\* count differs between the graphs of the batch.
C5_StackedAlways ==
    /\ \A n \in 1..Len(yielded) :
         LET b == yielded[n]
         IN  /\ has_graph_state =>
                  OneRowPerGraph(b, b.out[IndexPos - 1], "graph_state")
             /\ \A k \in 1..Len(outputs.names) :
                  OneRowPerGraph(b, OutY(b, k), outputs.names[k])
    /\ pc = "raised" =>
         \E k \in 1..Len(outputs.names) : \E g, h \in 1..Len(Idx) :
            /\ NodeLevel(outputs.names[k])
            /\ Len(GraphsBatch[g][outputs.names[k]])
                   # Len(GraphsBatch[h][outputs.names[k]])

\* a yielded batch of two graphs of two nodes each whose node-level target
\* is stacked one row per graph
C5_Witness ==
    /\ outputs.names = <<"node_labels">>
    /\ \E n \in 1..Len(yielded) :
         /\ Len(yielded[n].idx) = 2
         /\ yielded[n].out_y = << <<1, 1>>, <<1, 1>> >>

\* C5 as claimed: graph-level inputs and output labels are stacked one row
\* per graph, in batch order and without offset; a node-level or edge-level
\* target is not stacked one row per graph.
C5_Stacked ==
    \A n \in 1..Len(yielded) :
        LET b == yielded[n]
        IN  /\ has_graph_state =>
                 OneRowPerGraph(b, b.out[IndexPos - 1], "graph_state")
            /\ \A k \in 1..Len(outputs.names) :
                 IF NodeLevel(outputs.names[k])
                 THEN ~OneRowPerGraph(b, OutY(b, k), outputs.names[k])
                 ELSE OneRowPerGraph(b, OutY(b, k), outputs.names[k])

(***************************************************************************)
(* Properties of MemoryGraphList.  A step that makes a call sets call to    *)
(* the call and its outcome: the unprimed variables of such a step are the  *)
(* collection before the call, the primed ones the collection after it.     *)
(***************************************************************************)
\* the collection the call was made on, before and after the call
PreList == IF call'.on = "data" THEN _list ELSE view._list
PostList == IF call'.on = "data" THEN _list' ELSE view'._list

Distinct(l) == \A i, j \in 1..Len(l) : l[i] = l[j] => i = j

ListUnchanged == _list' = _list /\ heap' = heap /\ view' = view

\* the record holds value under key (a null value: it has nothing under key)
Holds(_dict, key, value) ==
    IF value.t = "NoneType" THEN key \notin DOMAIN _dict
    ELSE key \in DOMAIN _dict /\ _dict[key] = NpArray(value)

C7_LengthMismatch ==
    [][ (call'.op = "assign_property" /\ call.op = "none")
        => /\ (call'.value.t = "list" /\ Len(PreList) # 0
                  /\ Len(PreList) # Len(call'.value.items))
              => call'.raised = "ValueError"
           /\ call'.raised = "ValueError"
              => /\ call'.value.t = "list"
                 /\ Len(PreList) # Len(call'.value.items)
                 /\ ListUnchanged ]_vars

\* a list of one value was refused by a collection of two records that hold
\* attributes
C7_Witness ==
    /\ call.op = "assign_property"
    /\ call.on = "data"
    /\ call.raised = "ValueError"
    /\ Len(call.value.items) = 1
    /\ call.value.items[1].t # "NoneType"
    /\ Len(_list) = 2
    /\ DOMAIN heap[_list[1]] # {}

CallList == IF call.on = "data" THEN _list ELSE view._list

\* C8: obtain_property(key) returns a sequence of the collection's length,
\* entry i being record i's value for key or null where it lacks key; it
\* returns null instead exactly when every record lacks key, and then only
\* logs a warning.
C8_ObtainProperty ==
    call.op = "obtain_property" =>
        LET lacks(i) == call.key \notin DOMAIN heap[CallList[i]]
        IN  /\ call.raised = "none"
            /\ call.ret.t = "NoneType" <=> \A i \in 1..Len(CallList) : lacks(i)
            /\ call.warning <=> call.ret.t = "NoneType"
            /\ call.ret.t # "NoneType" =>
                 /\ call.ret.t = "list"
                 /\ Len(call.ret.items) = Len(CallList)
                 /\ \A i \in 1..Len(CallList) :
                      call.ret.items[i] = IF lacks(i) THEN None
                                          ELSE heap[CallList[i]][call.key]

\* a sequence was returned with a null for a record that lacks the key
C8_Witness ==
    /\ call.op = "obtain_property"
    /\ call.ret.t = "list"
    /\ Len(call.ret.items) = 2
    /\ call.ret.items[1].t = "NoneType"
    /\ call.ret.items[2].t = "ndarray"

\* the 1-based positions a slice or an index sequence selects, in order
Selected(l, item) ==
    IF item.t = "slice"
    THEN [k \in 1..(IF item.start < item.stop /\ item.start < Len(l)
                    THEN (IF item.stop < Len(l) THEN item.stop ELSE Len(l))
                         - item.start
                    ELSE 0) |-> item.start + k]
    ELSE [k \in 1..Len(item.idx) |->
             IF item.idx[k] < 0 THEN Len(l) + item.idx[k] + 1
             ELSE item.idx[k] + 1]

C10_Selectors ==
    [][ (call'.op = "getitem" /\ call.op = "none")
        => IF call'.item.t \in {"int", "np.int64", "slice", "list", "ndarray"}
           THEN call'.raised # "TypeError"
           ELSE call'.raised = "TypeError" /\ ListUnchanged ]_vars

(***************************************************************************)
(* Properties of MemoryGraphList.clean.                                    *)
(***************************************************************************)
CleanNames(inputs) == { ItemName(inputs[n]) : n \in 1..Len(inputs) }

\* some record of the collection holds key
HeldBySome(l, h, key) == \E i \in 1..Len(l) : key \in DOMAIN h[l[i]]

\* the record has nothing under key, or a value of zero length
NullOrEmpty(_dict, key) ==
    key \notin DOMAIN _dict \/ (PyLenOk(_dict[key]) /\ PyLen(_dict[key]) = 0)

\* the positions clean marks invalid: those of the records with a null or
\* zero-length value under a key of inputs that the collection holds
MarkedInvalid(l, h, inputs) ==
    { i \in 1..Len(l) : \E key \in CleanNames(inputs) :
          HeldBySome(l, h, key) /\ NullOrEmpty(h[l[i]], key) }

\* the entries of l at the positions outside drop, in order
RECURSIVE Without(_, _, _)
Without(l, drop, i) ==
    IF i > Len(l) THEN <<>>
    ELSE (IF i \in drop THEN <<>> ELSE <<l[i]>>) \o Without(l, drop, i + 1)

\* C11: a clean(keys) that returns has removed exactly the records at the
\* positions marked invalid for some key, each once; the records that remain
\* are the same instances in their original relative order and their
\* attributes are unchanged.
C11_CleanRemoves ==
    [][ (call'.op = "clean" /\ call.op = "none" /\ call'.raised = "none")
        => /\ _list' = Without(_list, MarkedInvalid(_list, heap, call'.inputs), 1)
           /\ Len(_list') = Len(_list)
                  - Cardinality(MarkedInvalid(_list, heap, call'.inputs))
           /\ \A i \in 1..Len(_list') : heap'[_list'[i]] = heap[_list'[i]] ]_vars

\* a 3-record collection whose record 1 lacks node_attributes was cleaned
\* to the collection of the original records 0 and 2
C11_Witness ==
    /\ call.op = "clean"
    /\ call.raised = "none"
    /\ call.inputs = <<PyStr("node_attributes")>>
    /\ _list = <<1, 3>>
    /\ heap[1]["node_attributes"] = NdArray(1, <<1>>)
    /\ heap[3]["node_attributes"] = NdArray(1, <<1>>)

\* C12 as claimed: after clean(keys) returns, no remaining record has a null
\* or zero-length value for any key in keys, also when every record of the
\* collection lacks that key.
C12_CleanedAll ==
    (call.op = "clean" /\ call.raised = "none")
        => \A i \in 1..Len(_list) : \A key \in CleanNames(call.inputs) :
               ~NullOrEmpty(heap[_list[i]], key)

\* C12 as amended: after clean(keys) returns, no remaining record has a null
\* or zero-length value for any key in keys that some record of the
\* collection held before the call; a key that no record holds is skipped
\* and removes nothing.
C12_CleanedHeld ==
    [][ (call'.op = "clean" /\ call.op = "none" /\ call'.raised = "none")
        => /\ \A i \in 1..Len(_list') : \A key \in CleanNames(call'.inputs) :
                 HeldBySome(_list, heap, key) => ~NullOrEmpty(heap'[_list'[i]], key)
           /\ (\A key \in CleanNames(call'.inputs) : ~HeldBySome(_list, heap, key))
                 => ListUnchanged ]_vars

\* a clean by descriptor removed the first of two records and kept the
\* second, which holds a value of positive length
C12_Witness ==
    /\ call.op = "clean"
    /\ call.raised = "none"
    /\ call.inputs = <<PyDict("node_attributes")>>
    /\ _list = <<2>>
    /\ heap[2]["node_attributes"] = NdArray(1, <<1>>)

(***************************************************************************)
(* Properties of one graph record.  The record is data[0].                  *)
(***************************************************************************)
Record == heap[_list[1]]

\* a call of operation op was made in this step
Called(op) == call.op = "none" /\ call'.op = op

\* array is the array np.array makes of the python value
ArrayOf(array, value) ==
    /\ array.t = "ndarray"
    /\ value.t = "int" => array.ndim = 0 /\ array.data = value.data
    /\ value.t = "list" =>
          /\ array.ndim = 1
          /\ Len(array.data) = Len(value.items)
          /\ \A i \in 1..Len(value.items) : array.data[i] = value.items[i].data[1]

\* C13: NumpyContainer.assign_property(key, value) stores value converted to
\* an array under key, replacing any earlier value without error and leaving
\* the other attributes alone; with a null value it changes nothing.
C13_RecordAssign ==
    [][ Called("assign_property")
        => /\ call'.raised = "none"
           /\ IF call'.args.value.t = "NoneType"
              THEN Record' = Record
              ELSE /\ DOMAIN Record' = DOMAIN Record \cup {call'.args.key}
                   /\ ArrayOf(Record'[call'.args.key], call'.args.value)
                   /\ \A k \in DOMAIN Record \ {call'.args.key} :
                        Record'[k] = Record[k] ]_vars

\* a list was assigned to a record built with the scalar label 5 and an edge
\* index array: the label is now the 1-d array
C13_Witness ==
    /\ call.op = "assign_property"
    /\ call.calls = 1
    /\ call.args.value = PyList(<<PyInt(1)>>)
    /\ Record["graph_labels"] = NdArray(1, <<1>>)
    /\ "edge_indices" \in DOMAIN Record

\* C14: NumpyContainer.obtain_property(key) returns the stored array when
\* key is set and None when it is not; it does not raise and does not change
\* the record.
C14_RecordObtain ==
    [][ Called("obtain_property")
        => /\ call'.raised = "none"
           /\ call'.args.key \in DOMAIN Record =>
                 call'.args.ret = Record[call'.args.key]
           /\ call'.args.key \notin DOMAIN Record => call'.args.ret = None
           /\ Record' = Record
           /\ _list' = _list ]_vars

\* None was returned for a key the record lacks
C14_Witness ==
    /\ call.op = "obtain_property"
    /\ call.args.key = "graph_labels"
    /\ call.args.ret = None
    /\ "graph_labels" \notin DOMAIN Record
    /\ "edge_indices" \in DOMAIN Record

ReadsIndices(op, prefix) ==
    {PrefixKey(prefix, "indices")}
        \cup (IF op = "set_range_from_edges" THEN {"edge_indices"} ELSE {})

IndexOperations ==
    {"set_edge_indices_reverse", "make_undirected_edges", "add_edge_self_loops",
     "sort_edge_indices", "normalize_edge_weights_sym", "set_range_from_edges",
     "set_angle"}

\* C16 as claimed: each index-based topology operation, for every prefix
\* argument, fails with ValueError naming the prefix, and with no other
\* error, whenever an index attribute it reads is not set on the record.
C16_MissingIndices ==
    [][ (call.op = "none" /\ call'.op \in IndexOperations
            /\ \E key \in ReadsIndices(call'.op, call'.args.prefix) :
                   key \notin DOMAIN Record)
        => call'.raised = "ValueError" /\ call'.about = call'.args.prefix ]_vars

(***************************************************************************)
(* Properties of the operations on an index family.                         *)
(***************************************************************************)
\* the rows of the index array of the prefix
IndexRows(_dict, prefix) == _dict[PrefixKey(prefix, "indices")].rows

\* the attributes whose name starts with the prefix, but the index array
CoPrefixed(_dict, prefix) ==
    { k \in DOMAIN _dict : HasPrefix(k, prefix) } \ {PrefixKey(prefix, "indices")}

\* every co-prefixed attribute has as many rows as the index array
Aligned(_dict, prefix) ==
    \A k \in CoPrefixed(_dict, prefix) :
        Len(_dict[k].rows) = Len(IndexRows(_dict, prefix))

\* the operation op, with argument prefix, was made in this step and returned
Done(ops) == call.op = "none" /\ call'.op \in ops /\ call'.raised = "none"

\* C17: make_undirected_edges, add_edge_self_loops and sort_edge_indices,
\* in any sequence and with a reverse map computed in between, keep every
\* attribute of the prefix as long as the index array, and every row of the
\* result carries, in all co-prefixed attributes, the rows of one row of the
\* record before whose index pair is the same pair (or its reverse, for an
\* added reverse edge), or is a new self-loop filled with fill_value.
C17_RowsFollow ==
    /\ [](\A prefix \in Prefixes :
              PrefixKey(prefix, "indices") \in DOMAIN Record => Aligned(Record, prefix))
    /\ [][ Done({"make_undirected_edges", "add_edge_self_loops", "sort_edge_indices"})
           => LET prefix == call'.args.prefix
                  before == IndexRows(Record, prefix)
                  after == IndexRows(Record', prefix)
              IN  /\ CoPrefixed(Record', prefix) = CoPrefixed(Record, prefix)
                  /\ Aligned(Record', prefix)
                  /\ \A r2 \in 1..Len(after) :
                       \/ \E r \in 1..Len(before) :
                            /\ \/ after[r2] = before[r]
                               \/ /\ call'.op = "make_undirected_edges"
                                  /\ after[r2] = Flip(before[r])
                            /\ \A k \in CoPrefixed(Record, prefix) :
                                 Record'[k].rows[r2] = Record[k].rows[r]
                       \/ /\ call'.op = "add_edge_self_loops"
                          /\ after[r2][1] = after[r2][2]
                          /\ \A k \in CoPrefixed(Record, prefix) :
                               \A c \in 1..Len(Record'[k].rows[r2]) :
                                   Record'[k].rows[r2][c] = call'.args.fill_value ]_vars

\* the edges (0,1), (1,0), (1,2) with attributes and a reverse map were made
\* undirected: (2,1) was added with the rows of (1,2)
C17_Witness ==
    /\ call.op = "make_undirected_edges"
    /\ call.raised = "none"
    /\ ~call.args.sort_indices
    /\ "edge_indices" \in DOMAIN Record
    /\ IndexRows(Record, "edge_") = << <<0, 1>>, <<1, 0>>, <<1, 2>>, <<2, 1>> >>
    /\ "edge_indices_reverse" \in DOMAIN Record
    /\ Record["edge_indices_reverse"].rows = << <<1>>, <<0>>, <<NaN>>, <<NaN>> >>
    /\ "edge_attributes" \in DOMAIN Record
    /\ Record["edge_attributes"].rows = << <<11>>, <<12>>, <<13>>, <<13>> >>

\* C18: set_edge_indices_reverse stores under <prefix>indices_reverse one
\* value per index row: for the row (i,j) the number of the first row (j,i),
\* or nan when there is none; following the map from the mapped row leads
\* back to a row with the pair (i,j); no other attribute changes.
C18_ReverseMap ==
    [][ Done({"set_edge_indices_reverse"})
        => LET prefix == call'.args.prefix
               reverse == PrefixKey(prefix, "indices_reverse")
               indices == IndexRows(Record, prefix)
               map == Record'[reverse].rows
           IN  /\ DOMAIN Record' = DOMAIN Record \cup {reverse}
               /\ \A k \in DOMAIN Record \ {reverse} : Record'[k] = Record[k]
               /\ Len(map) = Len(indices)
               /\ \A r \in 1..Len(indices) :
                    /\ Len(map[r]) = 1
                    /\ IF \E q \in 1..Len(indices) : indices[q] = Flip(indices[r])
                       THEN /\ map[r][1] \in 0..(Len(indices) - 1)
                            /\ indices[map[r][1] + 1] = Flip(indices[r])
                            /\ \A q \in 1..map[r][1] : indices[q] # Flip(indices[r])
                            /\ map[map[r][1] + 1][1] # NaN
                            /\ indices[map[map[r][1] + 1][1] + 1] = indices[r]
                       ELSE map[r][1] = NaN ]_vars

\* the edges (0,1), (1,0), (1,2) got the reverse map 1, 0, nan
C18_Witness ==
    /\ call.op = "set_edge_indices_reverse"
    /\ call.raised = "none"
    /\ "edge_indices" \in DOMAIN Record
    /\ IndexRows(Record, "edge_") = << <<0, 1>>, <<1, 0>>, <<1, 2>> >>
    /\ Record["edge_indices_reverse"].rows = << <<1>>, <<0>>, <<NaN>> >>

\* row r of the index array together with row r of every co-prefixed attribute
RowTuple(_dict, prefix, r) ==
    [k \in CoPrefixed(_dict, prefix) \cup {PrefixKey(prefix, "indices")} |->
        _dict[k].rows[r]]

\* how often the tuple occurs among the rows of the record
Occurs(_dict, prefix, tuple) ==
    Cardinality({ r \in 1..Len(IndexRows(_dict, prefix)) :
                     RowTuple(_dict, prefix, r) = tuple })

\* C19: sort_edge_indices leaves the index rows in ascending order of the
\* first column, ties broken by the second column, and moves the rows of
\* every co-prefixed attribute with them: the rows of the record, taken
\* across the index array and all co-prefixed attributes, are the same
\* multiset as before.
C19_Sorted ==
    [][ Done({"sort_edge_indices"})
        => LET prefix == call'.args.prefix
               before == IndexRows(Record, prefix)
               after == IndexRows(Record', prefix)
           IN  /\ \A r \in 1..(Len(after) - 1) :
                    \/ after[r][1] < after[r + 1][1]
                    \/ after[r][1] = after[r + 1][1] /\ after[r][2] <= after[r + 1][2]
               /\ Len(after) = Len(before)
               /\ CoPrefixed(Record', prefix) = CoPrefixed(Record, prefix)
               /\ Aligned(Record', prefix)
               /\ \A r \in 1..Len(before) :
                    Occurs(Record', prefix, RowTuple(Record, prefix, r))
                        = Occurs(Record, prefix, RowTuple(Record, prefix, r))
               /\ \A k \in DOMAIN Record : ~HasPrefix(k, prefix) => Record'[k] = Record[k]
      ]_vars

\* the edges (1,0), (0,1), (0,0) with attributes 11, 12, 13 were sorted to
\* (0,0), (0,1), (1,0) with attributes 13, 12, 11
C19_Witness ==
    /\ call.op = "sort_edge_indices"
    /\ call.raised = "none"
    /\ "edge_indices" \in DOMAIN Record
    /\ IndexRows(Record, "edge_") = << <<0, 0>>, <<0, 1>>, <<1, 0>> >>
    /\ "edge_attributes" \in DOMAIN Record
    /\ Record["edge_attributes"].rows = << <<13>>, <<12>>, <<11>> >>

\* C20: add_edge_self_loops with remove_duplicates=True is idempotent:
\* applied again to the record it has left, it leaves the same index array
\* and attribute rows; after it every node id of the index array has exactly
\* one row (v,v), and the co-prefixed rows of the added self-loops hold
\* fill_value.
C20_SelfLoops ==
    [][ (Done({"add_edge_self_loops"}) /\ call'.args.remove_duplicates)
        => LET prefix == call'.args.prefix
               before == IndexRows(Record, prefix)
               after == IndexRows(Record', prefix)
           IN  /\ GraphNumpyContainer_add_edge_self_loops(
                      Record', prefix, TRUE, call'.args.sort_indices,
                      call'.args.fill_value)._dict = Record'
               /\ \A r \in 1..Len(after) : \A c \in 1..2 :
                    Cardinality({ q \in 1..Len(after) :
                                     after[q] = <<after[r][c], after[r][c]>> }) = 1
               /\ \A r \in 1..Len(after) :
                    (after[r][1] = after[r][2]
                        /\ \A q \in 1..Len(before) : before[q] # after[r])
                    => \A k \in CoPrefixed(Record, prefix) :
                           \A c \in 1..Len(Record'[k].rows[r]) :
                               Record'[k].rows[r][c] = call'.args.fill_value ]_vars

\* the duplicated edge (0,1) with attributes got the self-loops (0,0) and
\* (1,1), filled with 7, and lost its duplicate
C20_Witness ==
    /\ call.op = "add_edge_self_loops"
    /\ call.raised = "none"
    /\ call.args.remove_duplicates
    /\ call.args.fill_value = 7
    /\ "edge_indices" \in DOMAIN Record
    /\ IndexRows(Record, "edge_") = << <<0, 0>>, <<0, 1>>, <<1, 1>> >>
    /\ "edge_attributes" \in DOMAIN Record
    /\ Record["edge_attributes"].rows = << <<7>>, <<11>>, <<7>> >>

(***************************************************************************)
(* Properties of the range and angle operations.                            *)
(***************************************************************************)
\* the record holds coordinates
HasCoordinates(_dict) ==
    "node_coordinates" \in DOMAIN _dict /\ _dict["node_coordinates"].t # "NoneType"

\* the distance of the nodes i and j of the record, numbered from 0
Apart(_dict, i, j) ==
    LET a == _dict["node_coordinates"].rows[i + 1][1]
        b == _dict["node_coordinates"].rows[j + 1][1]
    IN  IF a < b THEN b - a ELSE a - b

\* j is among the n nearest of the candidates of i
AmongNearest(_dict, i, j, n, self_loops) ==
    Cardinality({ k \in 0..(Len(_dict["node_coordinates"].rows) - 1) :
                     /\ self_loops \/ k # i
                     /\ \/ Apart(_dict, i, k) < Apart(_dict, i, j)
                        \/ Apart(_dict, i, k) = Apart(_dict, i, j) /\ k < j }) < n

\* C21: set_range on a record with coordinates selects the pair (i,j) exactly
\* when j is within max_distance of i and among the max_neighbours nearest
\* of i (exclusive=True), or when one of the two holds (exclusive=False);
\* with self_loops=False no pair (v,v) is selected; range_indices holds each
\* selected pair in exactly one row and range_attributes the distance of the
\* pair in the same row.
C21_RangeSelected ==
    [][ (Done({"set_range"}) /\ HasCoordinates(Record))
        => LET a == call'.args
               N == Len(Record["node_coordinates"].rows)
               indices == Record'["range_indices"].rows
               attributes == Record'["range_attributes"].rows
               near(i, j) == 2 * Apart(Record, i, j) <= a.max_distance
               few(i, j) == AmongNearest(Record, i, j, a.max_neighbours, a.self_loops)
               selected(i, j) == /\ a.self_loops \/ i # j
                                 /\ IF a.exclusive THEN near(i, j) /\ few(i, j)
                                    ELSE near(i, j) \/ few(i, j)
           IN  /\ \A i \in 0..(N - 1) : \A j \in 0..(N - 1) :
                    Cardinality({ r \in 1..Len(indices) : indices[r] = <<i, j>> })
                        = IF selected(i, j) THEN 1 ELSE 0
               /\ \A r \in 1..Len(indices) :
                    indices[r][1] \in 0..(N - 1) /\ indices[r][2] \in 0..(N - 1)
               /\ Len(attributes) = Len(indices)
               /\ \A r \in 1..Len(indices) :
                    attributes[r] = << Apart(Record, indices[r][1], indices[r][2]) >>
               /\ \A k \in DOMAIN Record \ {"range_indices", "range_attributes"} :
                    Record'[k] = Record[k] ]_vars

\* four points one unit apart, max_distance 1.5, max_neighbours 10,
\* exclusive, no self-loops: point 1 has the neighbours 0 and 2 only
C21_Witness ==
    /\ call.op = "set_range"
    /\ call.args = [max_distance |-> 3, max_neighbours |-> 10,
                    self_loops |-> FALSE, exclusive |-> TRUE]
    /\ HasCoordinates(Record)
    /\ Record["node_coordinates"].rows = << <<0>>, <<1>>, <<2>>, <<3>> >>
    /\ "range_indices" \in DOMAIN Record
    /\ Record["range_indices"].rows
           = << <<0, 1>>, <<1, 0>>, <<1, 2>>, <<2, 1>>, <<2, 3>>, <<3, 2>> >>
    /\ Record["range_attributes"].rows = << <<1>>, <<1>>, <<1>>, <<1>>, <<1>>, <<1>> >>

\* C23: a call of set_range_from_edges, set_range or set_angle with
\* compute_angles=True that returns on a record without node_coordinates
\* leaves the record as it was: no attribute is added or changed.
C23_NoCoordinates ==
    [][ ( /\ Done({"set_range_from_edges", "set_range", "set_angle"})
          /\ call'.op = "set_angle" => call'.args.compute_angles
          /\ ~HasCoordinates(Record) )
        => Record' = Record ]_vars

(***************************************************************************)
(* Properties of failing and of normalising operations.                     *)
(***************************************************************************)
\* C25: a topology operation that fails for missing indices (with the
\* ValueError, or with the KeyError of set_range_from_edges) leaves the
\* record exactly as it was: no attribute is added, removed or changed.
C25_FailureLeaves ==
    [][ (call.op = "none" /\ call'.op \in IndexOperations
            /\ call'.raised \in {"ValueError", "KeyError"})
        => Record' = Record ]_vars

\* normalize_edge_weights_sym failed on a record that has range indices and a
\* label, but no edge indices
C25_Witness ==
    /\ call.op = "normalize_edge_weights_sym"
    /\ call.raised = "ValueError"
    /\ call.args.prefix = "edge_"
    /\ DOMAIN Record = {"range_indices", "graph_labels"}

\* C27: normalize_edge_weights_sym on a record with the indices of the
\* prefix changes only the weights of the prefix: absent weights are first
\* set to a column of ones, so that they come out as (D[i] * D[j]) ^ -0.5;
\* afterwards the weights have one row per index row, and the indices and
\* every other attribute are as before.
C27_OnlyWeights ==
    [][ Done({"normalize_edge_weights_sym"})
        => LET indices == PrefixKey(call'.args.prefix, "indices")
               weights == PrefixKey(call'.args.prefix, "weights")
               rows == Record[indices].rows
           IN  /\ DOMAIN Record' = DOMAIN Record \cup {weights}
               /\ \A k \in DOMAIN Record \ {weights} : Record'[k] = Record[k]
               /\ Record'[weights].ndim = 2
               /\ Len(Record'[weights].rows) = Len(rows)
               /\ weights \notin DOMAIN Record =>
                     \A k \in 1..Len(rows) :
                         Record'[weights].rows[k]
                             = << Cardinality({ q \in 1..Len(rows) : rows[q][1] = rows[k][1] })
                                  * Cardinality({ q \in 1..Len(rows) : rows[q][1] = rows[k][2] }) >>
      ]_vars

\* the edges (1,0), (0,1), (0,0) with attributes and without weights were
\* normalised: node 0 has degree 2 and node 1 degree 1
C27_Witness ==
    /\ call.op = "normalize_edge_weights_sym"
    /\ call.raised = "none"
    /\ DOMAIN Record = {"edge_indices", "edge_attributes", "edge_weights"}
    /\ Record["edge_indices"].rows = << <<1, 0>>, <<0, 1>>, <<0, 0>> >>
    /\ Record["edge_attributes"].rows = << <<11>>, <<12>>, <<13>> >>
    /\ Record["edge_weights"].rows = << <<2>>, <<2>>, <<4>> >>

\* C24: after set_range_from_edges, range_indices has the values of
\* edge_indices and is another object, and a later change in place of one
\* of the two arrays leaves the other as it was.
C24_IndependentStorage ==
    [][ /\ Done({"set_range_from_edges"})
           => /\ Record'["range_indices"].rows = Record'["edge_indices"].rows
              /\ ~SameObject(Record', "range_indices", "edge_indices")
        /\ (Done({"inplace"}) /\ "range_indices" \in DOMAIN Record)
           => \A key \in {"edge_indices", "range_indices"} \ {call'.args.key} :
                  Record'[key].rows = Record[key].rows ]_vars

(***************************************************************************)
(* Properties of map_list.                                                   *)
(***************************************************************************)
\* C26: map_list calls the named method on the entries of the collection one
\* after another in their order.  When the method raises on entry k, the
\* call raises that error, the method has been called on no entry after k,
\* and the entries before k keep what the method has done to them; when it
\* raises on no entry, it has been called exactly once on every entry.
C26_MapStops ==
    [][ (call.op = "none" /\ call'.op = "map_list")
        => LET k == Len(call'.invoked)
               did(i) == CallMethod(heap[_list[i]], call'.fun, call'.kwargs)
           IN  /\ call'.invoked = [i \in 1..k |-> i]
               /\ _list' = _list
               /\ \A i \in 1..k : heap'[_list[i]] = did(i)._dict
               /\ \A i \in (k + 1)..Len(_list) : heap'[_list[i]] = heap[_list[i]]
               /\ \A i \in 1..(k - 1) : did(i).raised = "none"
               /\ IF call'.raised = "none"
                  THEN k = Len(_list) /\ \A i \in 1..k : did(i).raised = "none"
                  ELSE k >= 1 /\ did(k).raised = call'.raised ]_vars

\* sort_edge_indices was mapped over three records, the second without
\* edges: the first is sorted, the third is not
C26_Witness ==
    /\ call.op = "map_list"
    /\ call.fun = "sort_edge_indices"
    /\ call.raised = "ValueError"
    /\ call.invoked = <<1, 2>>
    /\ Len(_list) = 3
    /\ heap[_list[1]]["edge_indices"].rows = << <<0, 0>>, <<0, 1>>, <<1, 0>> >>
    /\ DOMAIN heap[_list[2]] = {"graph_labels"}
    /\ heap[_list[3]]["edge_indices"].rows = << <<1, 0>>, <<0, 1>>, <<0, 0>> >>

(***************************************************************************)
(* Completion of clean.                                                      *)
(***************************************************************************)
\* the entries of s, in their order, among the entries of t
RECURSIVE IsSubSeq(_, _)
IsSubSeq(s, t) ==
    IF s = <<>> THEN TRUE
    ELSE IF t = <<>> THEN FALSE
    ELSE IF Head(s) = Head(t) THEN IsSubSeq(Tail(s), Tail(t))
    ELSE IsSubSeq(s, Tail(t))

\* C30: clean completes without raising for every collection and every list
\* of names and descriptors, whatever the records hold under the names, a
\* scalar stored as a 0-d array included, and the collection it leaves is a
\* sub-sequence of the collection before.
C30_CleanCompletes ==
    [][ (call.op = "none" /\ call'.op = "clean")
        => call'.raised = "none" /\ IsSubSeq(_list', _list) ]_vars

(***************************************************************************)
(* Properties of deserialize.                                                *)
(***************************************************************************)
\* s is the beginning of t
IsPrefix(s, t) == Len(s) <= Len(t) /\ \A i \in 1..Len(s) : s[i] = t[i]

\* C28: deserialize builds the instance first and then calls prepare_data,
\* read_in_memory and set_attributes in this order, whatever the order of
\* the keys: when it returns, each of them has been called exactly once if
\* its name is a key of the dictionary and the instance has it, and not
\* otherwise; when it raises, the calls made are the beginning of that
\* sequence; a value that is neither a dictionary nor a string is returned
\* as it is and nothing is called.
C28_FixedOrder ==
    call.op = "deserialize"
    => LET dataset == call.dataset
           Wanted(x) == /\ dataset.t = "dict"
                        /\ \E i \in 1..Len(dataset.keys) : dataset.keys[i] = x
                        /\ x \in call.has
           expected == <<"__init__">>
                           \o SelectSeq(<<"prepare_data", "read_in_memory", "set_attributes">>,
                                        Wanted)
       IN  IF dataset.t \notin {"dict", "str"}
           THEN call.raised = "none" /\ call.ret = dataset /\ call.calls = <<>>
           ELSE /\ call.raised = "none" =>
                      /\ call.calls = expected
                      /\ call.ret.t = "dataset"
                      /\ call.ret.class_name
                             = (IF dataset.t = "str" THEN dataset.s ELSE dataset.class_name)
                /\ call.raised # "none" => IsPrefix(call.calls, expected)

\* the keys came as set_attributes, class_name, prepare_data, read_in_memory
\* and all three methods were called in the fixed order
C28_Witness ==
    /\ call.op = "deserialize"
    /\ call.raised = "none"
    /\ call.dataset.t = "dict"
    /\ call.dataset.keys = <<"set_attributes", "class_name", "prepare_data", "read_in_memory">>
    /\ call.calls = <<"__init__", "prepare_data", "read_in_memory", "set_attributes">>

(***************************************************************************)
(* Properties of save and load.                                              *)
(***************************************************************************)
\* C22: a load that finds the file leaves the collection with the records
\* that were saved: as many, in the same order, each with the same attribute
\* names and every array equal in shape and values to the one saved; the
\* records the collection held before are gone.
C22_SaveLoad ==
    [][ (call.op = "none" /\ call'.op = "load" /\ call'.raised = "none")
        => /\ Len(_list') = Len(disk.of)
           /\ \A i \in 1..Len(_list') :
                /\ DOMAIN heap'[_list'[i]] = DOMAIN disk.of[i]
                /\ \A key \in DOMAIN disk.of[i] : heap'[_list'[i]][key] = disk.of[i][key]
           /\ \A i, j \in 1..Len(_list') : _list'[i] = _list'[j] => i = j ]_vars

\* a collection of two records, with a 2-d array and a label of None and
\* with a scalar, was saved, cleared, and loaded into the empty collection
C22_Witness ==
    /\ call.op = "load"
    /\ call.raised = "none"
    /\ call.held = 0
    /\ Len(_list) = 2
    /\ heap[_list[1]] = [edge_indices |-> NdArray2(<< <<0, 1>>, <<1, 0>> >>),
                         graph_labels |-> ObjectArray]
    /\ heap[_list[2]] = [graph_size |-> NdArray(0, <<5>>)]

(***************************************************************************)
(* Properties of tf_disjoint_list_generator.                               *)
(***************************************************************************)
\* the inputs (0-based) the schema declares as index inputs
IndexInputs ==
    IF schema.assignment_of_indices.t = "NoneType" THEN {}
    ELSE { i \in 0..(num_inputs - 1) :
              schema.assignment_of_indices.items[i + 1].t # "NoneType" }

\* the disjoint indices experimental_tf_disjoint_list_generator computes for
\* the graphs at the positions idx, index input i referring to node input of
ExperimentalIndices(idx, i, of) ==
    LET graphs_batch == [k \in 1..Len(idx) |-> graphs[idx[k] + 1]]
        nodes   == ArrayList(graphs_batch, schema.inputs[of + 1])
        indices == ArrayList(graphs_batch, schema.inputs[i + 1])
    IN  DisjointIndices(Concatenate(indices),
                        OffsetEdgeIndices(Counts(nodes), Counts(indices)))

\* C29: for a schema with a node-level input and an index input,
\* tf_disjoint_list_generator yields each batch without raising, and the
\* index array of every yielded batch equals the disjoint indices the
\* experimental generator computes for the same graphs in the same order.
C29_ListGenerator ==
    IndexInputs # {} =>
        /\ pc # "raised"
        /\ \A n \in 1..Len(yielded) : \A i \in IndexInputs :
             LET of == schema.assignment_of_indices.items[i + 1].data[1]
             IN  /\ i < Len(yielded[n].out)
                 /\ yielded[n].out[i + 1].set
                 /\ yielded[n].out[i + 1].value =
                        ExperimentalIndices(yielded[n].idx, i, of)

====
